---- MODULE Spec2Model ----
(***************************************************************************)
(* Vendor registration, payment-gated provisioning and shed-number         *)
(* allocation of the TradeFair marketplace (users/views.py,                *)
(* users/serializers.py, users/models.py, vendors/models.py).              *)
(*                                                                         *)
(* The durable store is the three tables CustomUser, VendorProfile and     *)
(* Shed; the registration cache is the Redis keyspace; every HTTP request  *)
(* is a process.  Each ORM statement commits on its own (no                *)
(* transaction.atomic, no ATOMIC_REQUESTS in settings.py), so a callback   *)
(* is a sequence of steps that other requests may interleave with.         *)
(*                                                                         *)
(* The payment, preorder, product and shed endpoints (payments/views.py,   *)
(* orders/views.py, products/views.py, vendors/views.py) are modelled one  *)
(* request per step over the tables of their apps; last holds the request  *)
(* answered by the step and its HTTP status.                               *)
(***************************************************************************)
EXTENDS Integers, Sequences, FiniteSets, TLC

VARIABLES users, vendor_profiles, sheds, cache, nextRef, lastStage,
          gatewayFailed, pc, req, resp,
          customer_profiles, products, preorders, payments, vendor_payments,
          collages, follows, last

vars == <<users, vendor_profiles, sheds, cache, nextRef, lastStage,
          gatewayFailed, pc, req, resp,
          customer_profiles, products, preorders, payments, vendor_payments,
          collages, follows, last>>

store == <<users, vendor_profiles, sheds>>

\* the tables of the products, orders and payments apps, and the request
\* last answered by one of their endpoints
market == <<customer_profiles, products, preorders, payments, vendor_payments,
            collages, follows, last>>

\* the vendor registration state: the cache and the callbacks under way
registration == <<cache, nextRef, lastStage, gatewayFailed, pc, req, resp>>

(***************************************************************************)
(* Program constants                                                       *)
(***************************************************************************)
Domains == {"CB", "EC", "FB", "JA"}

MaxShedsPerDomain == 100

(***************************************************************************)
(* Bounds of the model                                                     *)
(***************************************************************************)
MaxReqs == 2

MaxRefs == 1

Reqs == 1..MaxReqs

\* reference = f"SHED-PENDING-{uuid.uuid4()}": the n-th uuid drawn
RefOf(n) == "SHED-PENDING-" \o ToString(n)

Refs == {RefOf(n) : n \in 1..MaxRefs}

\* a reference no registration ever staged
UnknownRef == "SHED-PENDING-unknown"

\* the callback was called without ?reference=
NoRef == ""

Usernames == {"alice", "bob"}

InputDomains == {"CB", "EC"}

\* <<vendors, sheds numbered CB1.., sheds numbered EC1..>> in the store when
\* the run starts; the vendors are vendors of domain CB
SeedStores == {<<0, 0, 0>>}

\* stores that already hold vendors and sheds; in the second, domain CB is
\* full by its vendors and domain EC is full by its sheds
FullStores == {<<2, 3, 0>>,
               <<MaxShedsPerDomain, MaxShedsPerDomain, MaxShedsPerDomain>>}

\* requests and references of the runs that start from such a store
MaxFullReqs == 1

MaxFullRefs == 1

FullReqs == 1..MaxFullReqs

FullRefs == {RefOf(n) : n \in 1..MaxFullRefs}

\* requests and references of the runs with two registrations under way
MaxPairReqs == 2

MaxPairRefs == 2

PairReqs == 1..MaxPairReqs

PairRefs == {RefOf(n) : n \in 1..MaxPairRefs}

NoEntry == [username |-> "", domain |-> ""]

NoResp == [status |-> 0, error |-> "", shed_number |-> ""]

NoLocals == [reference |-> NoRef, verification |-> "", vendor_data |-> NoEntry,
             user |-> {}, exc |-> ""]

NoStage == [outcome |-> "", domain |-> ""]

\* no request answered yet by the products, orders and payments endpoints
NoRequest == [op |-> "", user |-> 0, target |-> 0, input |-> "", status |-> 0]

(***************************************************************************)
(* ORM helpers                                                             *)
(***************************************************************************)
Max(S) == IF S = {} THEN 0 ELSE CHOOSE x \in S : \A y \in S : y <= x

\* AutoField: the next primary key of a table
NextId(table) == Max({row.id : row \in table}) + 1

\* CustomUser.username is unique (AbstractUser)
UsernameTaken(us, username) == \E u \in us : u.username = username

\* the decimal strings int() reads back, as far as the model writes numbers
DecimalValue ==
    [s \in {ToString(i) : i \in 0..(MaxShedsPerDomain + 1)} |->
       CHOOSE i \in 0..(MaxShedsPerDomain + 1) : ToString(i) = s]

\* IntegerField.get_prep_value: int(value), ValueError on a non-number
IntegerFieldPrep(value) ==
    IF value \in DOMAIN DecimalValue
    THEN [ok |-> TRUE, value |-> DecimalValue[value]]
    ELSE [ok |-> FALSE, value |-> 0]

ShedNumberExists(sh, shed_number) == \E s \in sh : s.shed_number = shed_number

VendorCount(vps, domain) == Cardinality({v \in vps : v.domain = domain})

(***************************************************************************)
(* generate_unique_shed_number                                             *)
(***************************************************************************)
ErrNoAvailable == "ValueError: No available shed numbers for domain"

ErrFieldNumber == "ValueError: Field 'shed_number' expected a number"

ErrIntegrity == "IntegrityError"

FormatShedNumber(prefix, number) == prefix \o ToString(number)

\* one evaluation of the while condition for `number`:
\*   Shed.objects.filter(shed_number=c).exists() or
\*   VendorProfile.objects.filter(shed_number=c).exists()
\* the second filter is built only when the first finds nothing, and building
\* it converts c for the PositiveIntegerField VendorProfile.shed_number
ShedNumberTaken(prefix, number, sh, vps) ==
    LET candidate == FormatShedNumber(prefix, number)
        prep == IntegerFieldPrep(candidate)
    IN  IF ShedNumberExists(sh, candidate) THEN "taken"
        ELSE IF ~prep.ok THEN "raise"
        ELSE IF \E v \in vps : v.shed_number = prep.value THEN "taken"
        ELSE "free"

\* the allocator without its limit of 100 numbers
generate_unique_shed_number_unbounded(domain, sh, vps) ==
    LET stops == {n \in 1..(MaxShedsPerDomain + 1) :
                    ShedNumberTaken(domain, n, sh, vps) # "taken"}
        number == CHOOSE n \in stops : \A m \in stops : n <= m
    IN  IF stops = {}
        THEN [ok |-> FALSE, value |-> "", exc |-> ErrNoAvailable]
        ELSE IF ShedNumberTaken(domain, number, sh, vps) = "raise"
             THEN [ok |-> FALSE, value |-> "", exc |-> ErrFieldNumber]
             ELSE [ok |-> TRUE, value |-> FormatShedNumber(domain, number),
                   exc |-> ""]

\* number = 1; while taken: number += 1; if number > 100: raise ValueError
generate_unique_shed_number(domain, sh, vps) ==
    LET stops == {n \in 1..MaxShedsPerDomain :
                    ShedNumberTaken(domain, n, sh, vps) # "taken"}
        number == CHOOSE n \in stops : \A m \in stops : n <= m
    IN  IF stops = {}
        THEN [ok |-> FALSE, value |-> "", exc |-> ErrNoAvailable]
        ELSE IF ShedNumberTaken(domain, number, sh, vps) = "raise"
             THEN [ok |-> FALSE, value |-> "", exc |-> ErrFieldNumber]
             ELSE [ok |-> TRUE, value |-> FormatShedNumber(domain, number),
                   exc |-> ""]

(***************************************************************************)
(* The writes of a payment callback, lines 228-253                         *)
(***************************************************************************)
\* the user insert without the unique index on username
CreateUserRow_no_unique(us, username) ==
    [exc |-> "",
     users |-> us \cup {[id |-> NextId(us), username |-> username,
                         is_vendor |-> TRUE]},
     id |-> {NextId(us)}]

\* CustomUser.objects.create(...); user.set_password(...); user.save()
CreateUserRow(us, username) ==
    IF UsernameTaken(us, username)
    THEN [exc |-> ErrIntegrity, users |-> us, id |-> {}]
    ELSE [exc |-> "",
          users |-> us \cup {[id |-> NextId(us), username |-> username,
                              is_vendor |-> TRUE]},
          id |-> {NextId(us)}]

\* VendorProfile.objects.create(user=..., shed_number=shed_number, ...)
CreateVendorProfileRow(vps, user, domain, shed_number, reference) ==
    LET prep == IntegerFieldPrep(shed_number)
    IN  IF ~prep.ok
        THEN [exc |-> ErrFieldNumber, vendor_profiles |-> vps, id |-> {}]
        ELSE IF \E v \in vps : v.shed_number = prep.value \/ v.user = user
             THEN [exc |-> ErrIntegrity, vendor_profiles |-> vps, id |-> {}]
             ELSE [exc |-> "",
                   vendor_profiles |-> vps \cup
                       {[id |-> NextId(vps), user |-> user, domain |-> domain,
                         shed_number |-> prep.value,
                         payment_status |-> "COMPLETED",
                         payment_reference |-> reference]},
                   id |-> {NextId(vps)}]

\* Shed.objects.create(vendor=..., shed_number=shed_number, ..., secured=True)
CreateShedRow(sh, vendor, shed_number, domain) ==
    IF ShedNumberExists(sh, shed_number)
    THEN [exc |-> ErrIntegrity, sheds |-> sh]
    ELSE [exc |-> "",
          sheds |-> sh \cup {[id |-> NextId(sh), vendor |-> vendor,
                              shed_number |-> shed_number, domain |-> domain,
                              secured |-> TRUE]}]

\* lines 237-253: allocate the number, then write the profile and the shed;
\* the first statement that raises ends the block and keeps earlier writes
Provision(vps, sh, user, vendor_data, reference) ==
    LET number == generate_unique_shed_number(vendor_data.domain, sh, vps)
        profile == CreateVendorProfileRow(vps, user, vendor_data.domain,
                                          number.value, reference)
        shed == CreateShedRow(sh, CHOOSE id \in profile.id : TRUE,
                              number.value, vendor_data.domain)
    IN  IF ~number.ok
        THEN [exc |-> number.exc, vendor_profiles |-> vps, sheds |-> sh,
              shed_number |-> ""]
        ELSE IF profile.exc # ""
             THEN [exc |-> profile.exc, vendor_profiles |-> vps, sheds |-> sh,
                   shed_number |-> ""]
             ELSE [exc |-> shed.exc,
                   vendor_profiles |-> profile.vendor_profiles,
                   sheds |-> shed.sheds,
                   shed_number |-> IF shed.exc = "" THEN number.value ELSE ""]

(***************************************************************************)
(* The registration cache (Redis)                                          *)
(***************************************************************************)
CacheGet(c, reference) == IF reference \in DOMAIN c THEN c[reference] ELSE NoEntry

CacheSet(c, reference, entry) ==
    IF reference \in DOMAIN c THEN [c EXCEPT ![reference] = entry] ELSE c

CacheDelete(c, reference) == CacheSet(c, reference, NoEntry)

(***************************************************************************)
(* VendorRegistrationSerializer: field validation, then validate()         *)
(***************************************************************************)
ValidateRegistration(us, vps, username, domain, passwords_match) ==
    IF domain \notin Domains THEN "invalid_choice"
    ELSE IF ~passwords_match THEN "password_mismatch"
    ELSE IF UsernameTaken(us, username) THEN "username_taken"
    ELSE IF VendorCount(vps, domain) >= MaxShedsPerDomain THEN "fully_booked"
    ELSE "valid"

\* staging that forgets the delete when initialize fails
StageRegistration_keeps_entry(c, reference, entry, gateway) ==
    LET staged == CacheSet(c, reference, entry)
    IN  [outcome |-> IF gateway = "ok" THEN "accepted"
                     ELSE IF gateway = "status_false" THEN "initiation_failed"
                     ELSE "initiation_error",
         cache |-> staged]

\* VendorRegistrationViewSet.create after validation: setex, initialize,
\* and the delete on a failed initialize
StageRegistration(c, reference, entry, gateway) ==
    LET staged == CacheSet(c, reference, entry)
    IN  IF gateway = "ok"
        THEN [outcome |-> "accepted", cache |-> staged]
        ELSE IF gateway = "status_false"
             THEN [outcome |-> "initiation_failed",
                   cache |-> CacheDelete(staged, reference)]
             ELSE [outcome |-> "initiation_error",
                   cache |-> CacheDelete(staged, reference)]

\* the callback without its check of the cache read
CallbackBranch_no_expiry_check(verification, entry) ==
    IF verification = "raise" THEN "except"
    ELSE IF verification # "success" THEN "verification_failed"
    ELSE "proceed"

\* what the callback does once the gateway (or the mock's ?status=) answered
CallbackBranch(verification, entry) ==
    IF verification = "raise" THEN "except"
    ELSE IF verification # "success" THEN "verification_failed"
    ELSE IF entry = NoEntry THEN "expired"
    ELSE "proceed"

(***************************************************************************)
(* Initial states: a store holding nv vendors and ns sheds of SeedDomain   *)
(***************************************************************************)
Min(a, b) == IF a < b THEN a ELSE b

SeedUsers(nv) ==
    {[id |-> i, username |-> "seed" \o ToString(i), is_vendor |-> TRUE] :
       i \in 1..nv}

SeedVendors(nv) ==
    {[id |-> i, user |-> i, domain |-> "CB", shed_number |-> i,
      payment_status |-> "COMPLETED", payment_reference |-> ""] : i \in 1..nv}

SeedSheds(nv, domain, ns, first_id) ==
    {[id |-> first_id + i, vendor |-> Min(i, nv),
      shed_number |-> FormatShedNumber(domain, i), domain |-> domain,
      secured |-> TRUE] : i \in 1..ns}

InitIn(stores, Q, R) ==
    /\ \E seed \in stores :
         /\ users = SeedUsers(seed[1])
         /\ vendor_profiles = SeedVendors(seed[1])
         /\ sheds = SeedSheds(seed[1], "CB", seed[2], 0)
                      \cup SeedSheds(seed[1], "EC", seed[3], seed[2])
    /\ cache = [r \in R |-> NoEntry]
    /\ nextRef = 1
    /\ lastStage = NoStage
    /\ gatewayFailed = {}
    /\ pc = [q \in Q |-> "idle"]
    /\ req = [q \in Q |-> NoLocals]
    /\ resp = [q \in Q |-> NoResp]
    /\ customer_profiles = {}
    /\ products = {}
    /\ preorders = {}
    /\ payments = {}
    /\ vendor_payments = {}
    /\ collages = {}
    /\ follows = {}
    /\ last = NoRequest

Init == InitIn(SeedStores, Reqs, Refs)

InitFull == InitIn(FullStores, FullReqs, FullRefs)

InitPair == InitIn(SeedStores, PairReqs, PairRefs)

(***************************************************************************)
(* POST /register/vendor : VendorRegistrationViewSet.create                *)
(***************************************************************************)
RegisterVendor ==
    \E username \in Usernames, domain \in InputDomains,
       passwords_match \in BOOLEAN :
      LET valid == ValidateRegistration(users, vendor_profiles, username,
                                        domain, passwords_match)
          reference == RefOf(nextRef)
      IN  /\ IF valid # "valid"
             THEN /\ lastStage' = [outcome |-> valid, domain |-> domain]
                  /\ UNCHANGED <<cache, nextRef, gatewayFailed>>
             ELSE \E gateway \in {"ok", "status_false", "raise"} :
                    LET staged == StageRegistration(cache, reference,
                                      [username |-> username, domain |-> domain],
                                      gateway)
                    IN  /\ reference \in DOMAIN cache
                        /\ lastStage' = [outcome |-> staged.outcome,
                                         domain |-> domain]
                        /\ cache' = staged.cache
                        /\ nextRef' = nextRef + 1
                        /\ gatewayFailed' =
                              IF staged.outcome = "accepted" THEN gatewayFailed
                              ELSE gatewayFailed \cup {reference}
          /\ UNCHANGED <<users, vendor_profiles, sheds, pc, req, resp, market>>

\* the entry's ttl of 3600 s runs out
ExpireEntry ==
    \E reference \in DOMAIN cache :
      /\ cache[reference] # NoEntry
      /\ cache' = CacheDelete(cache, reference)
      /\ UNCHANGED <<users, vendor_profiles, sheds, nextRef, lastStage,
                     gatewayFailed, pc, req, resp, market>>

(***************************************************************************)
(* GET /payment-callback and GET /mock-callback                            *)
(***************************************************************************)
\* the references handed out so far; nobody guesses a uuid before it is drawn
IssuedRefs == {RefOf(n) : n \in 1..(nextRef - 1)}

\* requests are numbered in the order they arrive
Arrives(q) == pc[q] = "idle" /\ \A p \in DOMAIN pc : p < q => pc[p] # "idle"

Finish(q, status, error, shed_number) ==
    /\ pc' = [pc EXCEPT ![q] = "done"]
    /\ resp' = [resp EXCEPT ![q] = [status |-> status, error |-> error,
                                    shed_number |-> shed_number]]

\* lines 214-227 (362-374 in the mock): reference, verification, cache read
BeginCallback(q, reference, verification) ==
    LET branch == CallbackBranch(verification, CacheGet(cache, reference))
    IN  /\ Arrives(q)
        /\ IF reference = NoRef
           THEN /\ Finish(q, 400, "Missing payment reference", "")
                /\ req' = [req EXCEPT ![q].verification = verification,
                                      ![q].exc = "no_reference"]
                /\ UNCHANGED <<cache, gatewayFailed>>
           ELSE IF branch = "proceed"
           THEN /\ pc' = [pc EXCEPT ![q] = "create_user"]
                /\ req' = [req EXCEPT ![q].reference = reference,
                                      ![q].verification = verification,
                                      ![q].vendor_data = CacheGet(cache, reference)]
                /\ UNCHANGED <<cache, gatewayFailed, resp>>
           ELSE IF branch = "expired"
           THEN /\ Finish(q, 400, "Registration data expired or not found", "")
                /\ req' = [req EXCEPT ![q].reference = reference,
                                      ![q].verification = verification,
                                      ![q].exc = "expired"]
                /\ UNCHANGED <<cache, gatewayFailed>>
           ELSE /\ cache' = CacheDelete(cache, reference)
                /\ gatewayFailed' = gatewayFailed \cup ({reference} \cap DOMAIN cache)
                /\ req' = [req EXCEPT ![q].reference = reference,
                                      ![q].verification = verification,
                                      ![q].exc = branch]
                /\ IF branch = "except"
                   THEN Finish(q, 500, "Payment verification error", "")
                   ELSE Finish(q, 400, "Payment verification failed.", "")
        /\ UNCHANGED <<users, vendor_profiles, sheds, nextRef, lastStage,
                       market>>

\* paystack_payment_callback: IsAuthenticated by default, Transaction.verify
PaystackCallback ==
    \E q \in DOMAIN pc, authenticated \in BOOLEAN,
       reference \in IssuedRefs \cup {UnknownRef, NoRef},
       verification \in {"success", "failed", "raise"} :
      IF authenticated
      THEN BeginCallback(q, reference, verification)
      ELSE /\ Arrives(q)
           /\ Finish(q, 401, "Authentication credentials were not provided.", "")
           /\ req' = [req EXCEPT ![q].exc = "unauthenticated"]
           /\ UNCHANGED <<users, vendor_profiles, sheds, cache, nextRef,
                          lastStage, gatewayFailed, market>>

\* mock_paystack_callback: AllowAny, ?status= stands for the verification
MockCallback ==
    \E q \in DOMAIN pc, reference \in IssuedRefs \cup {UnknownRef, NoRef},
       status \in {"success", "failed"} :
      BeginCallback(q, reference, status)

\* lines 228-236
CallbackCreateUser ==
    \E q \in DOMAIN pc :
      LET made == CreateUserRow(users, req[q].vendor_data.username)
      IN  /\ pc[q] = "create_user"
          /\ users' = made.users
          /\ req' = [req EXCEPT ![q].user = made.id, ![q].exc = made.exc]
          /\ pc' = [pc EXCEPT ![q] = IF made.exc = "" THEN "provision"
                                     ELSE "except"]
          /\ UNCHANGED <<vendor_profiles, sheds, cache, nextRef, lastStage,
                         gatewayFailed, resp, market>>

\* lines 237-279: on success the entry is deleted and 200 is answered
CallbackProvision ==
    \E q \in DOMAIN pc :
      LET done == Provision(vendor_profiles, sheds,
                            CHOOSE id \in req[q].user : TRUE,
                            req[q].vendor_data, req[q].reference)
      IN  /\ pc[q] = "provision"
          /\ vendor_profiles' = done.vendor_profiles
          /\ sheds' = done.sheds
          /\ IF done.exc = ""
             THEN /\ cache' = CacheDelete(cache, req[q].reference)
                  /\ Finish(q, 200, "", done.shed_number)
                  /\ UNCHANGED req
             ELSE /\ pc' = [pc EXCEPT ![q] = "except"]
                  /\ req' = [req EXCEPT ![q].exc = done.exc]
                  /\ UNCHANGED <<cache, resp>>
          /\ UNCHANGED <<users, nextRef, lastStage, gatewayFailed, market>>

\* lines 283-285: except Exception: delete the entry, answer 500
CallbackExcept ==
    \E q \in DOMAIN pc :
      /\ pc[q] = "except"
      /\ cache' = CacheDelete(cache, req[q].reference)
      /\ Finish(q, 500, req[q].exc, "")
      /\ UNCHANGED <<users, vendor_profiles, sheds, nextRef, lastStage,
                     gatewayFailed, req, market>>

Next ==
    \/ RegisterVendor
    \/ ExpireEntry
    \/ PaystackCallback
    \/ MockCallback
    \/ CallbackCreateUser
    \/ CallbackProvision
    \/ CallbackExcept

Spec == Init /\ [][Next]_vars

\* the same requests against a store that already holds vendors and sheds
SpecFull == InitFull /\ [][Next]_vars

\* the same requests with two registrations under way
SpecPair == InitPair /\ [][Next]_vars

(***************************************************************************)
(* Products, orders and payments (payments/views.py, orders/views.py,      *)
(* products/views.py, vendors/views.py).  A request of these endpoints is  *)
(* one step; its answer is kept in last.                                   *)
(***************************************************************************)
\* request.user of a request without credentials (AnonymousUser)
Anonymous == 0

\* the user whose is_superuser flag is set
Superusers == {4}

\* hasattr(user, 'vendor_profile')
HasVendorProfile(user) == \E v \in vendor_profiles : v.user = user

\* user.vendor_profile
VendorProfileOf(user) == CHOOSE v \in vendor_profiles : v.user = user

\* hasattr(user, 'customer_profile')
HasCustomerProfile(user) == \E c \in customer_profiles : c.user = user

\* Model.objects.get(id=pk) as a set of at most one row
RowsById(table, pk) == {row \in table : row.id = pk}

\* Model.objects.get(reference=reference) as a set of at most one row
RowsByReference(table, reference) == {row \in table : row.reference = reference}

\* the answer of an endpoint
Answer(op, user, target, input, status) ==
    [op |-> op, user |-> user, target |-> target, input |-> input,
     status |-> status]

(***************************************************************************)
(* POST /api/payments/initiate-shed/{shed_id}/                             *)
(***************************************************************************)
MaxShedRefs == 2

\* the reference the gateway hands back for a shed payment
ShedPaymentRef(n) == "shed_ref_" \o ToString(n)

ShedRefs == {ShedPaymentRef(n) : n \in 1..MaxShedRefs}

\* not amount or float(amount) <= 0, and float() of a non-number
AmountCheck(amount) ==
    IF amount = "" THEN "invalid"
    ELSE IF amount = "abc" THEN "raise"
    ELSE IF amount \in {"0", "-5"} THEN "invalid"
    ELSE "valid"

\* the bodies and gateway answers tried, as <<amount, gateway, reference>>:
\* a bad amount never reaches the gateway, and only a gateway that accepts
\* hands back a reference of its choice
ShedPaymentInputs ==
    {<<"", "ok", "">>, <<"0", "ok", "">>, <<"abc", "ok", "">>,
     <<"100", "status_false", "">>, <<"100", "raise", "">>}
    \cup {<<"100", "ok", reference>> : reference \in ShedRefs}

\* the same handler with the row created whatever response['status'] says
InitiateShedPaymentPost_any_answer(user, shed_id, amount, gateway, reference, shs, vps) ==
    LET found == RowsById(shs, shed_id)
        shed == CHOOSE s \in found : TRUE
    IN  IF user = Anonymous THEN [status |-> 401, vendor_payments |-> vps]
        ELSE IF found = {} THEN [status |-> 404, vendor_payments |-> vps]
        ELSE IF ~HasVendorProfile(user) \/ shed.vendor # VendorProfileOf(user).id
        THEN [status |-> 403, vendor_payments |-> vps]
        ELSE IF shed.secured THEN [status |-> 400, vendor_payments |-> vps]
        ELSE IF AmountCheck(amount) = "invalid"
        THEN [status |-> 400, vendor_payments |-> vps]
        ELSE IF AmountCheck(amount) = "raise" \/ gateway = "raise"
        THEN [status |-> 500, vendor_payments |-> vps]
        ELSE IF RowsByReference(vps, reference) # {}
        THEN [status |-> 500, vendor_payments |-> vps]
        ELSE [status |-> IF gateway = "status_false" THEN 400 ELSE 200,
              vendor_payments |-> vps \cup
                  {[id |-> NextId(vps), shed |-> shed_id,
                    reference |-> reference, status |-> "pending"]}]

\* InitiateShedPayment.post
InitiateShedPaymentPost(user, shed_id, amount, gateway, reference, shs, vps) ==
    LET found == RowsById(shs, shed_id)
        shed == CHOOSE s \in found : TRUE
    IN  IF user = Anonymous THEN [status |-> 401, vendor_payments |-> vps]
        ELSE IF found = {} THEN [status |-> 404, vendor_payments |-> vps]
        ELSE IF ~HasVendorProfile(user) \/ shed.vendor # VendorProfileOf(user).id
        THEN [status |-> 403, vendor_payments |-> vps]
        ELSE IF shed.secured THEN [status |-> 400, vendor_payments |-> vps]
        ELSE IF AmountCheck(amount) = "invalid"
        THEN [status |-> 400, vendor_payments |-> vps]
        ELSE IF AmountCheck(amount) = "raise" \/ gateway = "raise"
        THEN [status |-> 500, vendor_payments |-> vps]
        ELSE IF gateway = "status_false"
        THEN [status |-> 400, vendor_payments |-> vps]
        ELSE IF RowsByReference(vps, reference) # {}
        THEN [status |-> 500, vendor_payments |-> vps]
        ELSE [status |-> 200,
              vendor_payments |-> vps \cup
                  {[id |-> NextId(vps), shed |-> shed_id,
                    reference |-> reference, status |-> "pending"]}]

InitiateShedPayment ==
    \E user \in {Anonymous} \cup {u.id : u \in users},
       shed_id \in {s.id : s \in sheds} \cup {NextId(sheds)},
       input \in ShedPaymentInputs :
      LET done == InitiateShedPaymentPost(user, shed_id, input[1], input[2],
                                          input[3], sheds, vendor_payments)
      IN  /\ vendor_payments' = done.vendor_payments
          /\ last' = Answer("initiate_shed", user, shed_id,
                            [amount |-> input[1], gateway |-> input[2],
                             reference |-> input[3]], done.status)
          /\ UNCHANGED <<store, registration, collages, customer_profiles, follows, products,
                         preorders, payments>>

(***************************************************************************)
(* POST /api/payments/webhook/                                             *)
(***************************************************************************)
\* a payload without a "data" object: request.data.get('data') is None
NoData == [status |-> "<none>", reference |-> "<none>"]

\* the webhook without vendor_payment.shed.save()
PaystackWebhookPost_no_shed_save(event, data, vps, shs) ==
    LET found == RowsByReference(vps, data.reference)
        vendor_payment == CHOOSE p \in found : TRUE
    IN  IF event = "charge.success" /\ data = NoData
        THEN [status |-> 500, vendor_payments |-> vps, sheds |-> shs]
        ELSE IF event = "charge.success" /\ data.status = "success"
        THEN IF found = {}
             THEN [status |-> 404, vendor_payments |-> vps, sheds |-> shs]
             ELSE [status |-> 200,
                   vendor_payments |->
                      (vps \ found) \cup
                         {[vendor_payment EXCEPT !.status = "success"]},
                   sheds |-> shs]
        ELSE [status |-> 400, vendor_payments |-> vps, sheds |-> shs]

\* the webhook answering "Payment verified" for a reference nobody holds
PaystackWebhookPost_unknown_ok(event, data, vps, shs) ==
    LET found == RowsByReference(vps, data.reference)
        vendor_payment == CHOOSE p \in found : TRUE
    IN  IF event = "charge.success" /\ data = NoData
        THEN [status |-> 500, vendor_payments |-> vps, sheds |-> shs]
        ELSE IF event = "charge.success" /\ data.status = "success"
        THEN IF found = {}
             THEN [status |-> 200, vendor_payments |-> vps, sheds |-> shs]
             ELSE [status |-> 200,
                   vendor_payments |->
                      (vps \ found) \cup
                         {[vendor_payment EXCEPT !.status = "success"]},
                   sheds |->
                      {IF s.id = vendor_payment.shed
                       THEN [s EXCEPT !.secured = TRUE] ELSE s : s \in shs}]
        ELSE [status |-> 400, vendor_payments |-> vps, sheds |-> shs]

\* the webhook copying a reported "failed" into the vendor payment
PaystackWebhookPost_marks_failed(event, data, vps, shs) ==
    LET found == RowsByReference(vps, data.reference)
        vendor_payment == CHOOSE p \in found : TRUE
    IN  IF event = "charge.success" /\ data = NoData
        THEN [status |-> 500, vendor_payments |-> vps, sheds |-> shs]
        ELSE IF event = "charge.success" /\ data.status \in {"success", "failed"}
        THEN IF found = {}
             THEN [status |-> 404, vendor_payments |-> vps, sheds |-> shs]
             ELSE [status |-> 200,
                   vendor_payments |->
                      (vps \ found) \cup
                         {[vendor_payment EXCEPT !.status = data.status]},
                   sheds |->
                      {IF s.id = vendor_payment.shed /\ data.status = "success"
                       THEN [s EXCEPT !.secured = TRUE] ELSE s : s \in shs}]
        ELSE [status |-> 400, vendor_payments |-> vps, sheds |-> shs]

\* PaystackWebhook.post
PaystackWebhookPost(event, data, vps, shs) ==
    LET found == RowsByReference(vps, data.reference)
        vendor_payment == CHOOSE p \in found : TRUE
    IN  IF event = "charge.success" /\ data = NoData
        THEN [status |-> 500, vendor_payments |-> vps, sheds |-> shs]
        ELSE IF event = "charge.success" /\ data.status = "success"
        THEN IF found = {}
             THEN [status |-> 404, vendor_payments |-> vps, sheds |-> shs]
             ELSE [status |-> 200,
                   vendor_payments |->
                      (vps \ found) \cup
                         {[vendor_payment EXCEPT !.status = "success"]},
                   sheds |->
                      {IF s.id = vendor_payment.shed
                       THEN [s EXCEPT !.secured = TRUE] ELSE s : s \in shs}]
        ELSE [status |-> 400, vendor_payments |-> vps, sheds |-> shs]

UnknownPaymentRef == "unknown_ref"

WebhookEvents == {"charge.success", "charge.failed"}

\* the payloads a gateway, or anybody else (AllowAny), may post
WebhookData ==
    {NoData} \cup
    [status : {"success", "failed", ""},
     reference : ShedRefs \cup {p.reference : p \in payments}
                   \cup {UnknownPaymentRef}]

PaystackWebhook ==
    \E event \in WebhookEvents, data \in WebhookData :
      LET done == PaystackWebhookPost(event, data, vendor_payments, sheds)
      IN  /\ vendor_payments' = done.vendor_payments
          /\ sheds' = done.sheds
          /\ last' = Answer("webhook", Anonymous, 0,
                            [event |-> event, data |-> data], done.status)
          /\ UNCHANGED <<users, vendor_profiles, registration,
                         collages, customer_profiles, follows, products, preorders, payments>>

(***************************************************************************)
(* /api/preorders/ : PreorderViewSet                                       *)
(***************************************************************************)
\* obj.product.shed.vendor.user
ShedOwnerOf(preorder) ==
    LET product == CHOOSE p \in products : p.id = preorder.product
        shed == CHOOSE s \in sheds : s.id = product.shed
        vendor == CHOOSE v \in vendor_profiles : v.id = shed.vendor
    IN  vendor.user

\* Preorder.customer is a foreign key to CustomUser, request.user's
\* customer_profile is a CustomerProfile: Model.__eq__ of rows of two
\* different models is False, so != is True whatever the rows are
SameCustomer(preorder, user) == FALSE

\* PreorderViewSet.get_queryset; filter(customer=<CustomerProfile>) on the
\* foreign key to CustomUser raises ValueError ("Cannot query ...")
PreorderQueryset(user) ==
    IF HasVendorProfile(user)
    THEN [exc |-> "",
          rows |-> {p \in preorders :
                      \E product \in products, shed \in sheds :
                        /\ product.id = p.product
                        /\ shed.id = product.shed
                        /\ shed.vendor = VendorProfileOf(user).id}]
    ELSE IF HasCustomerProfile(user)
    THEN [exc |-> "ValueError", rows |-> {}]
    ELSE [exc |-> "", rows |-> {}]

\* IsPreorderOwnerOrVendor.has_object_permission; obj.customer is a
\* CustomUser, which has no attribute user
IsPreorderOwnerOrVendor(user, obj) ==
    IF HasVendorProfile(user) /\ ShedOwnerOf(obj) = user THEN "allow"
    ELSE IF HasCustomerProfile(user) THEN "raise"
    ELSE "deny"

CustomerActions == {"create", "list", "retrieve", "initiate_payment",
                    "check_payment_status"}

\* get_object() over Preorder.objects.all() and without the object
\* permissions: the row of pk for whoever is authenticated
PreorderGetObject_any_row(user, pk, action) ==
    LET found == RowsById(preorders, pk)
        none == {}
    IN  IF user = Anonymous THEN [status |-> 401, rows |-> none]
        ELSE IF found = {} THEN [status |-> 404, rows |-> none]
        ELSE [status |-> 200, rows |-> found]

\* get_permissions, then self.get_object(): the permissions of the action,
\* the queryset of the user, the row of pk, the object permissions
PreorderGetObject(user, pk, action) ==
    LET queryset == PreorderQueryset(user)
        found == RowsById(queryset.rows, pk)
        obj == CHOOSE p \in found : TRUE
        none == {}
    IN  IF user = Anonymous THEN [status |-> 401, rows |-> none]
        ELSE IF action \in CustomerActions /\ ~HasCustomerProfile(user)
        THEN [status |-> 403, rows |-> none]
        ELSE IF queryset.exc # "" THEN [status |-> 500, rows |-> none]
        ELSE IF found = {} THEN [status |-> 404, rows |-> none]
        ELSE IF action \in CustomerActions THEN [status |-> 200, rows |-> found]
        ELSE IF IsPreorderOwnerOrVendor(user, obj) = "deny"
        THEN [status |-> 403, rows |-> none]
        ELSE IF IsPreorderOwnerOrVendor(user, obj) = "raise"
        THEN [status |-> 500, rows |-> none]
        ELSE [status |-> 200, rows |-> found]

\* preorder.status = value; preorder.save()
SetPreorderStatus(rows, pk, value) ==
    {IF p.id = pk THEN [p EXCEPT !.status = value] ELSE p : p \in rows}

\* PreorderViewSet.confirm
PreorderConfirmPatch(user, pk) ==
    LET got == PreorderGetObject(user, pk, "confirm")
        preorder == CHOOSE p \in got.rows : TRUE
    IN  IF got.status # 200 THEN [status |-> got.status, preorders |-> preorders]
        ELSE IF preorder.vendor # user
        THEN [status |-> 403, preorders |-> preorders]
        ELSE [status |-> 200,
              preorders |-> SetPreorderStatus(preorders, pk, "confirmed")]

\* PreorderViewSet.cancel; request.user.customer_profile raises
\* RelatedObjectDoesNotExist for a user without one
PreorderCancelPatch(user, pk) ==
    LET got == PreorderGetObject(user, pk, "cancel")
        preorder == CHOOSE p \in got.rows : TRUE
    IN  IF got.status # 200 THEN [status |-> got.status, preorders |-> preorders]
        ELSE IF preorder.vendor = user
        THEN [status |-> 200,
              preorders |-> SetPreorderStatus(preorders, pk, "cancelled")]
        ELSE IF ~HasCustomerProfile(user)
        THEN [status |-> 500, preorders |-> preorders]
        ELSE IF ~SameCustomer(preorder, user)
        THEN [status |-> 403, preorders |-> preorders]
        ELSE [status |-> 200,
              preorders |-> SetPreorderStatus(preorders, pk, "cancelled")]

RequestUsers == {Anonymous} \cup {u.id : u \in users}

PreorderIds == {p.id : p \in preorders} \cup {NextId(preorders)}

OrdersUnchanged ==
    UNCHANGED <<store, registration, collages, customer_profiles, follows, products, payments,
                vendor_payments>>

PreorderConfirm ==
    \E user \in RequestUsers, pk \in PreorderIds :
      LET done == PreorderConfirmPatch(user, pk)
      IN  /\ preorders' = done.preorders
          /\ last' = Answer("confirm", user, pk, [none |-> TRUE], done.status)
          /\ OrdersUnchanged

PreorderCancel ==
    \E user \in RequestUsers, pk \in PreorderIds :
      LET done == PreorderCancelPatch(user, pk)
      IN  /\ preorders' = done.preorders
          /\ last' = Answer("cancel", user, pk, [none |-> TRUE], done.status)
          /\ OrdersUnchanged

\* Preorder.STATUS_CHOICES
PreorderStatuses == {"pending", "confirmed", "cancelled"}

\* assigning to the foreign key Preorder.customer, which points at
\* users.CustomUser: a row of another model raises ValueError
CustomerFieldAccepts(model) == model = "CustomUser"

\* PreorderSerializer: the field checks, then validate(); "" is an omitted
\* status, which the model defaults to pending
PreorderSerializerValid(product_id, vendor_id, quantity, status) ==
    LET product == CHOOSE p \in products : p.id = product_id
    IN  /\ RowsById(products, product_id) # {}
        /\ RowsById(users, vendor_id) # {}
        /\ quantity >= 0
        /\ status \in PreorderStatuses \cup {""}
        /\ ~(quantity <= 0)
        /\ ~(quantity > product.quantity)

\* PreorderViewSet.create with perform_create:
\* serializer.save(customer=self.request.user.customer_profile)
PreorderCreatePost(user, product_id, vendor_id, quantity, status) ==
    IF user = Anonymous THEN [status |-> 401, preorders |-> preorders]
    ELSE IF ~HasCustomerProfile(user) THEN [status |-> 403, preorders |-> preorders]
    ELSE IF ~PreorderSerializerValid(product_id, vendor_id, quantity, status)
    THEN [status |-> 400, preorders |-> preorders]
    ELSE IF ~CustomerFieldAccepts("CustomerProfile")
    THEN [status |-> 500, preorders |-> preorders]
    ELSE [status |-> 201,
          preorders |-> preorders \cup
              {[id |-> NextId(preorders), customer |-> user,
                vendor |-> vendor_id, product |-> product_id,
                quantity |-> quantity,
                status |-> IF status = "" THEN "pending" ELSE status]}]

\* PATCH /api/preorders/{pk}/ : partial_update; validate() compares
\* attrs.get("quantity") with 0, a TypeError when quantity is omitted
PreorderPartialUpdate(user, pk, has_quantity, quantity, status) ==
    LET got == PreorderGetObject(user, pk, "partial_update")
    IN  IF got.status # 200 THEN [status |-> got.status, preorders |-> preorders]
        ELSE IF status \notin PreorderStatuses \cup {""} \/ (has_quantity /\ quantity < 0)
        THEN [status |-> 400, preorders |-> preorders]
        ELSE IF ~has_quantity THEN [status |-> 500, preorders |-> preorders]
        ELSE IF quantity <= 0 THEN [status |-> 400, preorders |-> preorders]
        ELSE [status |-> 200,
              preorders |->
                {IF p.id = pk
                 THEN [p EXCEPT !.quantity = quantity,
                                !.status = IF status = "" THEN @ ELSE status]
                 ELSE p : p \in preorders}]

\* DELETE /api/preorders/{pk}/ ; Payment.preorder is on_delete=CASCADE
PreorderDestroy(user, pk) ==
    LET got == PreorderGetObject(user, pk, "destroy")
    IN  IF got.status # 200
        THEN [status |-> got.status, preorders |-> preorders,
              payments |-> payments]
        ELSE [status |-> 204,
              preorders |-> {p \in preorders : p.id # pk},
              payments |-> {p \in payments : p.preorder # pk}]

\* reference=f"preorder_{preorder.id}_{int(request.user.id)}"
PreorderPaymentRef(pk, user) ==
    "preorder_" \o ToString(pk) \o "_" \o ToString(user)

\* PreorderViewSet.initiate_payment
PreorderInitiatePayment(user, pk, gateway) ==
    LET got == PreorderGetObject(user, pk, "initiate_payment")
        preorder == CHOOSE p \in got.rows : TRUE
        reference == PreorderPaymentRef(pk, user)
    IN  IF got.status # 200 THEN [status |-> got.status, payments |-> payments]
        ELSE IF ~SameCustomer(preorder, user)
        THEN [status |-> 403, payments |-> payments]
        ELSE IF gateway = "raise" THEN [status |-> 500, payments |-> payments]
        ELSE IF gateway = "status_false"
        THEN [status |-> 400, payments |-> payments]
        ELSE IF RowsByReference(payments, reference) # {}
        THEN [status |-> 500, payments |-> payments]
        ELSE [status |-> 200,
              payments |-> payments \cup
                 {[id |-> NextId(payments), preorder |-> pk,
                   reference |-> reference, status |-> "pending"]}]

\* what Transaction.verify may report: no status, or data.status
GatewayStatuses == {"status_false", "success", "failed", "abandoned"}

\* PreorderViewSet.check_payment_status
PreorderCheckPaymentStatus(user, pk, verified) ==
    LET got == PreorderGetObject(user, pk, "check_payment_status")
        preorder == CHOOSE p \in got.rows : TRUE
        found == {p \in payments : p.preorder = pk}
        payment == CHOOSE p \in found : TRUE
    IN  IF got.status # 200 THEN [status |-> got.status, payments |-> payments]
        ELSE IF ~SameCustomer(preorder, user)
        THEN [status |-> 403, payments |-> payments]
        ELSE IF found = {} THEN [status |-> 404, payments |-> payments]
        ELSE IF Cardinality(found) > 1
        THEN [status |-> 500, payments |-> payments]
        ELSE IF verified = "status_false"
        THEN [status |-> 400, payments |-> payments]
        ELSE [status |-> 200,
              payments |-> (payments \ found) \cup
                             {[payment EXCEPT !.status = verified]}]

\* the PATCH bodies tried: quantity present or not, its value, the status
UpdateBodies ==
    {<<FALSE, 0, "confirmed">>, <<TRUE, 0, "">>, <<TRUE, 3, "">>,
     <<TRUE, 3, "confirmed">>, <<TRUE, 3, "cancelled">>}

PreorderCreate ==
    \E user \in {Anonymous, 1, 3}, product_id \in {1, NextId(products)},
       vendor_id \in {1, 3}, quantity \in {-1, 0, 1, 3},
       status \in {"", "confirmed"} :
      LET done == PreorderCreatePost(user, product_id, vendor_id, quantity,
                                     status)
      IN  /\ preorders' = done.preorders
          /\ last' = Answer("create", user, product_id,
                            [vendor |-> vendor_id, quantity |-> quantity,
                             status |-> status], done.status)
          /\ OrdersUnchanged

PreorderUpdate ==
    \E user \in RequestUsers, pk \in PreorderIds, body \in UpdateBodies :
      LET done == PreorderPartialUpdate(user, pk, body[1], body[2], body[3])
      IN  /\ preorders' = done.preorders
          /\ last' = Answer("partial_update", user, pk,
                            [has_quantity |-> body[1], quantity |-> body[2],
                             status |-> body[3]], done.status)
          /\ OrdersUnchanged

PreorderDelete ==
    \E user \in RequestUsers, pk \in PreorderIds :
      LET done == PreorderDestroy(user, pk)
      IN  /\ preorders' = done.preorders
          /\ payments' = done.payments
          /\ last' = Answer("destroy", user, pk, [none |-> TRUE], done.status)
          /\ UNCHANGED <<store, registration, collages, customer_profiles, follows, products,
                         vendor_payments>>

InitiatePayment ==
    \E user \in RequestUsers, pk \in PreorderIds,
       gateway \in {"ok", "status_false", "raise"} :
      LET done == PreorderInitiatePayment(user, pk, gateway)
      IN  /\ payments' = done.payments
          /\ last' = Answer("initiate_payment", user, pk,
                            [gateway |-> gateway], done.status)
          /\ UNCHANGED <<store, registration, collages, customer_profiles, follows, products,
                         preorders, vendor_payments>>

CheckPaymentStatus ==
    \E user \in RequestUsers, pk \in PreorderIds, verified \in GatewayStatuses :
      LET done == PreorderCheckPaymentStatus(user, pk, verified)
      IN  /\ payments' = done.payments
          /\ last' = Answer("check_payment_status", user, pk,
                            [verified |-> verified], done.status)
          /\ UNCHANGED <<store, registration, collages, customer_profiles, follows, products,
                         preorders, vendor_payments>>

(***************************************************************************)
(* products/views.py and vendors/views.py: the Product and Shed endpoints  *)
(***************************************************************************)
\* permissions.SAFE_METHODS
SafeMethods == {"GET", "HEAD", "OPTIONS"}

\* permissions.IsAuthenticatedOrReadOnly.has_permission
IsAuthenticatedOrReadOnly(user, method) ==
    method \in SafeMethods \/ user # Anonymous

\* shed.vendor.user
ShedVendorUser(shed_id) ==
    LET shed == CHOOSE s \in sheds : s.id = shed_id
        vendor == CHOOSE v \in vendor_profiles : v.id = shed.vendor
    IN  vendor.user

\* on_delete=CASCADE from Shed and Product down to Preorder and Payment:
\* what is left of the tables once the sheds of gone_sheds and the products
\* of gone_products are deleted
CascadeDelete(gone_sheds, gone_products) ==
    LET lost_products == {p \in products :
                            p.id \in gone_products \/ p.shed \in gone_sheds}
        lost_preorders == {o \in preorders :
                             \E p \in lost_products : o.product = p.id}
    IN  [sheds |-> {s \in sheds : s.id \notin gone_sheds},
         products |-> products \ lost_products,
         preorders |-> preorders \ lost_preorders,
         payments |-> {y \in payments :
                         \A o \in lost_preorders : y.preorder # o.id},
         vendor_payments |-> {vp \in vendor_payments :
                                vp.shed \notin gone_sheds},
         collages |-> {c \in collages : c.shed \notin gone_sheds}]

\* IsVendorOwnerOrReadOnly.has_object_permission
IsVendorOwnerOrReadOnly(user, method, obj) ==
    IF method \in SafeMethods THEN TRUE
    ELSE IF ~HasVendorProfile(user) THEN FALSE
    ELSE ShedVendorUser(obj.shed) = user

\* ProductViewSet.get_queryset
ProductQueryset(user) ==
    IF HasVendorProfile(user)
    THEN {p \in products : ShedVendorUser(p.shed) = user}
    ELSE products

\* ProductViewSet: the permissions of the request, then get_object()
ProductGetObject(user, pk, method) ==
    LET found == RowsById(ProductQueryset(user), pk)
        obj == CHOOSE p \in found : TRUE
    IN  IF ~IsAuthenticatedOrReadOnly(user, method) THEN 401
        ELSE IF found = {} THEN 404
        ELSE IF ~IsVendorOwnerOrReadOnly(user, method, obj) THEN 403
        ELSE 200

\* the shed id of a request body that names none
NoShed == 0

\* POST /api/products/ : ProductSerializer's field checks, then
\* perform_create
ProductCreatePost(user, shed_id, vendor_id, quantity) ==
    IF ~IsAuthenticatedOrReadOnly(user, "POST")
    THEN [status |-> 401, products |-> products]
    ELSE IF RowsById(users, vendor_id) = {} \/ quantity < 0
    THEN [status |-> 400, products |-> products]
    ELSE IF ~HasVendorProfile(user)
    THEN [status |-> 403, products |-> products]
    ELSE IF shed_id = NoShed THEN [status |-> 403, products |-> products]
    ELSE IF \A s \in sheds :
              ~(s.id = shed_id /\ s.vendor = VendorProfileOf(user).id)
    THEN [status |-> 403, products |-> products]
    ELSE [status |-> 201,
          products |-> products \cup
             {[id |-> NextId(products), shed |-> shed_id,
               vendor |-> vendor_id, quantity |-> quantity]}]

\* PATCH /api/products/{pk}/ with a quantity
ProductPartialUpdate(user, pk, quantity) ==
    LET got == ProductGetObject(user, pk, "PATCH")
    IN  IF got # 200 THEN [status |-> got, products |-> products]
        ELSE IF quantity < 0 THEN [status |-> 400, products |-> products]
        ELSE [status |-> 200,
              products |-> {IF p.id = pk THEN [p EXCEPT !.quantity = quantity]
                            ELSE p : p \in products}]

\* DELETE /api/products/{pk}/
ProductDestroy(user, pk) ==
    LET got == ProductGetObject(user, pk, "DELETE")
    IN  IF got # 200 THEN [status |-> got, tables |-> CascadeDelete({}, {})]
        ELSE [status |-> 204, tables |-> CascadeDelete({}, {pk})]

\* GET /api/products/ and GET /api/products/{pk}/
ProductList(user) == 200

ProductRetrieve(user, pk) == ProductGetObject(user, pk, "GET")

\* IsVendorOrAdmin.has_object_permission
IsVendorOrAdmin(user, method, obj) ==
    IF method \in SafeMethods THEN TRUE
    ELSE IF user \in Superusers THEN TRUE
    ELSE HasVendorProfile(user) /\ ShedVendorUser(obj.id) = user

\* ShedSerializer.Meta.fields, the fields the serializer declares itself,
\* and the fields of the Shed model
ShedSerializerFields ==
    {"id", "vendor", "vendor_name", "domain", "domain_display", "shed_number",
     "name", "location"}

ShedDeclaredFields == {"vendor_name", "domain_display"}

ShedModelFields ==
    {"id", "vendor", "shed_number", "name", "domain", "secured", "collage"}

\* ModelSerializer.get_fields: a name of Meta.fields that is neither
\* declared nor a field of the model raises ImproperlyConfigured
SerializerBuilds(fields, declared, model_fields) ==
    (fields \ declared) \subseteq model_fields

\* a serializer whose Meta.fields are all fields of the model
ShedSerializerBuilds_all_fields_known == TRUE

ShedSerializerBuilds ==
    SerializerBuilds(ShedSerializerFields, ShedDeclaredFields, ShedModelFields)

\* ShedViewSet: the permissions of the request, then get_object()
ShedGetObject(user, pk, method) ==
    LET found == RowsById(sheds, pk)
        obj == CHOOSE s \in found : TRUE
    IN  IF ~IsAuthenticatedOrReadOnly(user, method) THEN 401
        ELSE IF found = {} THEN 404
        ELSE IF ~IsVendorOrAdmin(user, method, obj) THEN 403
        ELSE 200

\* POST /api/vendors/sheds/ : serializer.is_valid() builds the fields
\* before perform_create runs, whose PermissionError is the builtin one
ShedCreatePost(user, domain) ==
    IF ~IsAuthenticatedOrReadOnly(user, "POST")
    THEN [status |-> 401, sheds |-> sheds]
    ELSE IF ~ShedSerializerBuilds THEN [status |-> 500, sheds |-> sheds]
    ELSE IF ~HasVendorProfile(user) THEN [status |-> 500, sheds |-> sheds]
    ELSE [status |-> 201,
          sheds |-> sheds \cup
             {[id |-> NextId(sheds), vendor |-> VendorProfileOf(user).id,
               shed_number |-> "", domain |-> domain, secured |-> FALSE]}]

\* PATCH /api/vendors/sheds/{pk}/ with a domain
\* the same update saving the row with the default of `secured`
ShedPartialUpdate_resets_secured(user, pk, domain) ==
    LET got == ShedGetObject(user, pk, "PATCH")
    IN  IF got # 200 THEN [status |-> got, sheds |-> sheds]
        ELSE [status |-> IF ShedSerializerBuilds THEN 200 ELSE 500,
              sheds |-> {IF s.id = pk THEN [s EXCEPT !.secured = FALSE]
                         ELSE s : s \in sheds}]

ShedPartialUpdate(user, pk, domain) ==
    LET got == ShedGetObject(user, pk, "PATCH")
    IN  IF got # 200 THEN [status |-> got, sheds |-> sheds]
        ELSE IF ~ShedSerializerBuilds THEN [status |-> 500, sheds |-> sheds]
        ELSE [status |-> 200,
              sheds |-> {IF s.id = pk THEN [s EXCEPT !.domain = domain]
                         ELSE s : s \in sheds}]

\* DELETE /api/vendors/sheds/{pk}/ : no serializer is involved
ShedDestroy(user, pk) ==
    LET got == ShedGetObject(user, pk, "DELETE")
    IN  IF got # 200 THEN [status |-> got, tables |-> CascadeDelete({}, {})]
        ELSE [status |-> 204, tables |-> CascadeDelete({pk}, {})]

\* GET /api/vendors/sheds/ : serializer.data builds the fields as soon as
\* there is a row to represent
ShedList(user) ==
    IF sheds = {} \/ ShedSerializerBuilds THEN 200 ELSE 500

\* GET /api/vendors/sheds/{pk}/
ShedRetrieve(user, pk) ==
    LET got == ShedGetObject(user, pk, "GET")
    IN  IF got # 200 THEN got
        ELSE IF ~ShedSerializerBuilds THEN 500
        ELSE 200

\* the upload of a request without a file
NoFile == ""

\* POST /api/vendors/sheds/{pk}/collage/ : ShedViewSet.update_collage
ShedUpdateCollage(user, pk, file) ==
    LET got == ShedGetObject(user, pk, "POST")
        shed == CHOOSE s \in sheds : s.id = pk
    IN  IF got # 200 THEN [status |-> got, collages |-> collages]
        ELSE IF /\ user \notin Superusers
                /\ \/ ~HasVendorProfile(user)
                   \/ shed.vendor # VendorProfileOf(user).id
        THEN [status |-> 403, collages |-> collages]
        ELSE IF file = NoFile THEN [status |-> 400, collages |-> collages]
        ELSE [status |-> 200,
              collages |-> {c \in collages : c.shed # pk} \cup
                             {[shed |-> pk, file |-> file]}]

\* the most product ids the requests tried may use up
MaxProductId == 2

ProductIds == {p.id : p \in products} \cup {NextId(products)}

ShedIds == {s.id : s \in sheds} \cup {NextId(sheds)}

CatalogUnchanged ==
    UNCHANGED <<users, vendor_profiles, registration, customer_profiles, follows>>

ProductCreate ==
    \E user \in RequestUsers, shed_id \in {NoShed, 1, 2},
       quantity \in {-1, 5} :
      LET done == ProductCreatePost(user, shed_id, user, quantity)
      IN  /\ NextId(products) <= MaxProductId
          /\ products' = done.products
          /\ last' = Answer("product_create", user, shed_id,
                            [quantity |-> quantity], done.status)
          /\ CatalogUnchanged
          /\ UNCHANGED <<sheds, preorders, payments, vendor_payments, collages>>

ProductUpdate ==
    \E user \in RequestUsers, pk \in ProductIds, quantity \in {-1, 5} :
      LET done == ProductPartialUpdate(user, pk, quantity)
      IN  /\ products' = done.products
          /\ last' = Answer("product_update", user, pk,
                            [quantity |-> quantity], done.status)
          /\ CatalogUnchanged
          /\ UNCHANGED <<sheds, preorders, payments, vendor_payments, collages>>

\* a deletion: every table takes what the cascade leaves
TablesBecome(tables) ==
    /\ sheds' = tables.sheds
    /\ products' = tables.products
    /\ preorders' = tables.preorders
    /\ payments' = tables.payments
    /\ vendor_payments' = tables.vendor_payments
    /\ collages' = tables.collages

ProductDelete ==
    \E user \in RequestUsers, pk \in ProductIds :
      LET done == ProductDestroy(user, pk)
      IN  /\ TablesBecome(done.tables)
          /\ last' = Answer("product_destroy", user, pk, [none |-> TRUE],
                            done.status)
          /\ CatalogUnchanged

ProductRead ==
    \E user \in RequestUsers, pk \in ProductIds \cup {0} :
      /\ last' = IF pk = 0
                 THEN Answer("product_list", user, 0, [none |-> TRUE],
                             ProductList(user))
                 ELSE Answer("product_retrieve", user, pk, [none |-> TRUE],
                             ProductRetrieve(user, pk))
      /\ CatalogUnchanged
      /\ UNCHANGED <<sheds, products, preorders, payments, vendor_payments,
                     collages>>

ShedCreate ==
    \E user \in RequestUsers, domain \in {"CB", "EC"} :
      LET done == ShedCreatePost(user, domain)
      IN  /\ sheds' = done.sheds
          /\ last' = Answer("shed_create", user, 0, [domain |-> domain],
                            done.status)
          /\ CatalogUnchanged
          /\ UNCHANGED <<products, preorders, payments, vendor_payments,
                         collages>>

ShedUpdate ==
    \E user \in RequestUsers, pk \in ShedIds, domain \in {"FB"} :
      LET done == ShedPartialUpdate(user, pk, domain)
      IN  /\ sheds' = done.sheds
          /\ last' = Answer("shed_update", user, pk, [domain |-> domain],
                            done.status)
          /\ CatalogUnchanged
          /\ UNCHANGED <<products, preorders, payments, vendor_payments,
                         collages>>

ShedDelete ==
    \E user \in RequestUsers, pk \in ShedIds :
      LET done == ShedDestroy(user, pk)
      IN  /\ TablesBecome(done.tables)
          /\ last' = Answer("shed_destroy", user, pk, [none |-> TRUE],
                            done.status)
          /\ CatalogUnchanged

ShedRead ==
    \E user \in RequestUsers, pk \in ShedIds \cup {0} :
      /\ last' = IF pk = 0
                 THEN Answer("shed_list", user, 0, [none |-> TRUE],
                             ShedList(user))
                 ELSE Answer("shed_retrieve", user, pk, [none |-> TRUE],
                             ShedRetrieve(user, pk))
      /\ CatalogUnchanged
      /\ UNCHANGED <<sheds, products, preorders, payments, vendor_payments,
                     collages>>

ShedCollage ==
    \E user \in RequestUsers, pk \in ShedIds, file \in {NoFile, "stall.png"} :
      LET done == ShedUpdateCollage(user, pk, file)
      IN  /\ collages' = done.collages
          /\ last' = Answer("shed_collage", user, pk, [file |-> file],
                            done.status)
          /\ CatalogUnchanged
          /\ UNCHANGED <<sheds, products, preorders, payments, vendor_payments>>

(***************************************************************************)
(* followers/views.py, followers/permissions.py: the Follow endpoints      *)
(***************************************************************************)
\* hasattr(request.user, name) for the reverse one-to-one accessors: the
\* profiles hang off the user as vendor_profile and customer_profile
HasAttr(user, name) ==
    CASE name = "vendor_profile" -> HasVendorProfile(user)
      [] name = "customer_profile" -> HasCustomerProfile(user)
      [] OTHER -> FALSE

\* followers.permissions.IsCustomer.has_permission
FollowersIsCustomer(user) ==
    user # Anonymous /\ HasAttr(user, "customerprofile")

\* followers.permissions.IsVendor.has_permission
FollowersIsVendor(user) ==
    user # Anonymous /\ HasAttr(user, "vendorprofile")

\* FollowViewSet.get_queryset; Follow.customer is a CustomUser, which has
\* no field named user for customer__user to follow (FieldError)
FollowQueryset(user) ==
    IF HasAttr(user, "vendor_profile")
    THEN [exc |-> "",
          rows |-> {f \in follows : f.vendor = VendorProfileOf(user).id}]
    ELSE IF HasAttr(user, "customer_profile")
    THEN [exc |-> "FieldError", rows |-> {}]
    ELSE [exc |-> "", rows |-> {}]

\* FollowSerializer: vendor is a primary key of VendorProfile whose user
\* is_vendor; customer is not a field of the serializer
FollowSerializerValid(vendor_id) ==
    \E v \in vendor_profiles :
      /\ v.id = vendor_id
      /\ \E u \in users : u.id = v.user /\ u.is_vendor

\* POST /api/followers/ without the permission of the action, the customer
\* taken from the request body
FollowCreatePost_body_customer(user, vendor_id, body_customer) ==
    IF user = Anonymous THEN [status |-> 401, follows |-> follows]
    ELSE IF ~FollowSerializerValid(vendor_id)
    THEN [status |-> 400, follows |-> follows]
    ELSE [status |-> 201,
          follows |-> follows \cup
             {[id |-> NextId(follows), customer |-> body_customer,
               vendor |-> vendor_id]}]

\* POST /api/followers/ : FollowViewSet.create with perform_create;
\* unique_together = ('customer', 'vendor') raises IntegrityError on save
FollowCreatePost(user, vendor_id, body_customer) ==
    IF user = Anonymous THEN [status |-> 401, follows |-> follows]
    ELSE IF ~FollowersIsCustomer(user) THEN [status |-> 403, follows |-> follows]
    ELSE IF ~FollowSerializerValid(vendor_id)
    THEN [status |-> 400, follows |-> follows]
    ELSE IF ~HasAttr(user, "customer_profile")
    THEN [status |-> 403, follows |-> follows]
    ELSE IF ~CustomerFieldAccepts("CustomerProfile")
    THEN [status |-> 500, follows |-> follows]
    ELSE IF \E f \in follows : f.customer = user /\ f.vendor = vendor_id
    THEN [status |-> 500, follows |-> follows]
    ELSE [status |-> 201,
          follows |-> follows \cup
             {[id |-> NextId(follows), customer |-> user,
               vendor |-> vendor_id]}]

\* the vendor_id of a request body that names none
NoVendorId == 0

\* POST /api/followers/unfollow/ : FollowViewSet.unfollow
FollowUnfollowPost(user, vendor_id) ==
    LET mine == {f \in follows : f.customer = user /\ f.vendor = vendor_id}
    IN  IF user = Anonymous THEN [status |-> 401, follows |-> follows]
        ELSE IF ~FollowersIsCustomer(user)
        THEN [status |-> 403, follows |-> follows]
        ELSE IF vendor_id = NoVendorId THEN [status |-> 400, follows |-> follows]
        ELSE IF ~HasAttr(user, "customer_profile")
        THEN [status |-> 403, follows |-> follows]
        ELSE IF ~CustomerFieldAccepts("CustomerProfile")
        THEN [status |-> 500, follows |-> follows]
        ELSE IF mine = {} THEN [status |-> 400, follows |-> follows]
        ELSE [status |-> 200, follows |-> follows \ mine]

\* DELETE /api/followers/{pk}/ : destroy, over get_queryset
FollowDestroy(user, pk) ==
    LET queryset == FollowQueryset(user)
    IN  IF user = Anonymous THEN [status |-> 401, follows |-> follows]
        ELSE IF ~FollowersIsCustomer(user)
        THEN [status |-> 403, follows |-> follows]
        ELSE IF queryset.exc # "" THEN [status |-> 500, follows |-> follows]
        ELSE IF RowsById(queryset.rows, pk) = {}
        THEN [status |-> 404, follows |-> follows]
        ELSE [status |-> 204, follows |-> {f \in follows : f.id # pk}]

\* GET /api/followers/ : list, over get_queryset
FollowList(user) ==
    IF user = Anonymous THEN 401
    ELSE IF FollowQueryset(user).exc # "" THEN 500
    ELSE 200

FollowIds == {f.id : f \in follows} \cup {NextId(follows)}

VendorIds == {v.id : v \in vendor_profiles} \cup {NoVendorId}

FollowersUnchanged ==
    UNCHANGED <<store, registration, collages, customer_profiles, products,
                preorders, payments, vendor_payments>>

FollowCreate ==
    \E user \in RequestUsers, vendor_id \in VendorIds, body_customer \in {2, 3} :
      LET done == FollowCreatePost(user, vendor_id, body_customer)
      IN  /\ follows' = done.follows
          /\ last' = Answer("follow_create", user, vendor_id,
                            [customer |-> body_customer], done.status)
          /\ FollowersUnchanged

FollowUnfollow ==
    \E user \in RequestUsers, vendor_id \in VendorIds :
      LET done == FollowUnfollowPost(user, vendor_id)
      IN  /\ follows' = done.follows
          /\ last' = Answer("unfollow", user, vendor_id, [none |-> TRUE],
                            done.status)
          /\ FollowersUnchanged

FollowDelete ==
    \E user \in RequestUsers, pk \in FollowIds :
      LET done == FollowDestroy(user, pk)
      IN  /\ follows' = done.follows
          /\ last' = Answer("follow_destroy", user, pk, [none |-> TRUE],
                            done.status)
          /\ FollowersUnchanged

FollowRead ==
    \E user \in RequestUsers :
      /\ last' = Answer("follow_list", user, 0, [none |-> TRUE],
                        FollowList(user))
      /\ FollowersUnchanged
      /\ UNCHANGED follows

(***************************************************************************)
(* The marketplace the endpoints run against: two vendors with a shed and  *)
(* a product each, a customer with two preorders (the second one created   *)
(* with the customer as its vendor value), a payment of the first          *)
(* preorder, and a superuser.  Vendor 2 also has a customer profile.       *)
(***************************************************************************)
MarketUsers ==
    {[id |-> 1, username |-> "vendor_a", is_vendor |-> TRUE],
     [id |-> 2, username |-> "vendor_b", is_vendor |-> TRUE],
     [id |-> 3, username |-> "customer", is_vendor |-> FALSE],
     [id |-> 4, username |-> "admin", is_vendor |-> FALSE]}

MarketVendors ==
    {[id |-> 1, user |-> 1, domain |-> "CB", shed_number |-> 1,
      payment_status |-> "COMPLETED", payment_reference |-> ""],
     [id |-> 2, user |-> 2, domain |-> "EC", shed_number |-> 2,
      payment_status |-> "COMPLETED", payment_reference |-> ""]}

MarketCustomers == {[id |-> 1, user |-> 3], [id |-> 2, user |-> 2]}

MarketSheds ==
    {[id |-> 1, vendor |-> 1, shed_number |-> "CB1", domain |-> "CB",
      secured |-> FALSE],
     [id |-> 2, vendor |-> 2, shed_number |-> "EC1", domain |-> "EC",
      secured |-> FALSE]}

MarketProducts ==
    {[id |-> 1, shed |-> 1, vendor |-> 1, quantity |-> 2],
     [id |-> 2, shed |-> 2, vendor |-> 2, quantity |-> 2]}

MarketPreorders ==
    {[id |-> 1, customer |-> 3, vendor |-> 1, product |-> 1, quantity |-> 1,
      status |-> "pending"],
     [id |-> 2, customer |-> 3, vendor |-> 3, product |-> 2, quantity |-> 1,
      status |-> "pending"]}

\* Follow rows: customer is a CustomUser, vendor a VendorProfile
MarketFollows ==
    {[id |-> 1, customer |-> 3, vendor |-> 1],
     [id |-> 2, customer |-> 2, vendor |-> 1]}

MarketPayments ==
    {[id |-> 1, preorder |-> 1, reference |-> PreorderPaymentRef(1, 3),
      status |-> "pending"]}

InitMarket ==
    /\ users = MarketUsers
    /\ vendor_profiles = MarketVendors
    /\ sheds = MarketSheds
    /\ customer_profiles = MarketCustomers
    /\ products = MarketProducts
    /\ preorders = MarketPreorders
    /\ payments = MarketPayments
    /\ vendor_payments = {}
    /\ collages = {}
    /\ follows = MarketFollows
    /\ last = NoRequest
    /\ cache = [r \in {} |-> NoEntry]
    /\ nextRef = 1
    /\ lastStage = NoStage
    /\ gatewayFailed = {}
    /\ pc = [q \in {} |-> "idle"]
    /\ req = [q \in {} |-> NoLocals]
    /\ resp = [q \in {} |-> NoResp]

NextPayments ==
    \/ InitiateShedPayment
    \/ PaystackWebhook
    \/ InitiatePayment
    \/ CheckPaymentStatus

NextOrders ==
    \/ PreorderCreate
    \/ PreorderConfirm
    \/ PreorderCancel
    \/ PreorderUpdate
    \/ PreorderDelete

NextCatalog ==
    \/ ProductCreate
    \/ ProductUpdate
    \/ ProductDelete
    \/ ProductRead
    \/ ShedCreate
    \/ ShedUpdate
    \/ ShedDelete
    \/ ShedRead
    \/ ShedCollage

NextFollowers ==
    \/ FollowCreate
    \/ FollowUnfollow
    \/ FollowDelete
    \/ FollowRead

(***************************************************************************)
(* POST /api/users/register/ : UserRegistrationViewSet                     *)
(***************************************************************************)
\* UserRegistrationViewSet.create with UserRegistrationSerializer.create:
\* the username is unique (400), the row is a CustomUser and nothing else
UserRegistrationPost(us, username) ==
    IF UsernameTaken(us, username) THEN [status |-> 400, users |-> us]
    ELSE [status |-> 201,
          users |-> us \cup {[id |-> NextId(us), username |-> username,
                              is_vendor |-> FALSE]}]

UserRegistration ==
    \E username \in Usernames :
      LET done == UserRegistrationPost(users, username)
      IN  /\ users' = done.users
          /\ last' = Answer("register_user", Anonymous, 0,
                            [username |-> username], done.status)
          /\ UNCHANGED <<vendor_profiles, sheds, registration, collages,
                         customer_profiles, follows, products, preorders,
                         payments, vendor_payments>>

(***************************************************************************)
(* GET /api/vendors/dashboard/ : VendorDashboardViewSet                    *)
(***************************************************************************)
\* the attributes of the shed that retrieve() reads for its answer
DashboardShedAttributes ==
    {"id", "shed_number", "name", "domain", "secured", "collage", "location"}

NoStats == [none |-> TRUE]

\* VendorDashboardViewSet.retrieve: IsAuthenticated, the vendor profile,
\* Shed.objects.get and VendorPayment.objects.get (one row each, or the
\* lookup raises), the three counts, and the attributes of the shed
VendorDashboardRetrieve(user, shs, prods, pres, fols, vps) ==
    IF user = Anonymous THEN [status |-> 401, stats |-> NoStats]
    ELSE IF ~HasVendorProfile(user) THEN [status |-> 403, stats |-> NoStats]
    ELSE
      LET vendor == VendorProfileOf(user).id
          mine == {s \in shs : s.vendor = vendor}
          shed == CHOOSE s \in mine : TRUE
          in_shed == {p.id : p \in {q \in prods : q.shed = shed.id}}
      IN  IF mine = {} THEN [status |-> 404, stats |-> NoStats]
          ELSE IF Cardinality(mine) > 1
          THEN [status |-> 500, stats |-> NoStats]
          ELSE IF Cardinality({vp \in vps : vp.shed = shed.id}) > 1
          THEN [status |-> 500, stats |-> NoStats]
          ELSE IF ~(DashboardShedAttributes \subseteq ShedModelFields)
          THEN [status |-> 500, stats |-> NoStats]
          ELSE [status |-> 200,
                stats |->
                  [products_count |-> Cardinality(in_shed),
                   preorders_count |->
                     Cardinality({o \in pres : o.product \in in_shed}),
                   followers_count |->
                     Cardinality({f \in fols : f.vendor = vendor})]]

VendorDashboard ==
    \E user \in RequestUsers :
      LET done == VendorDashboardRetrieve(user, sheds, products, preorders,
                                          follows, vendor_payments)
      IN  /\ last' = Answer("dashboard", user, 0, done.stats, done.status)
          /\ UNCHANGED <<store, registration, customer_profiles, products,
                         preorders, payments, vendor_payments, collages,
                         follows>>

(***************************************************************************)
(* DELETE /api/users/delete/ : UserDeleteViewSet                           *)
(***************************************************************************)
\* UserDeleteViewSet.destroy: request.user.delete(), with what CASCADE takes
\* along: the profiles, the sheds of the vendor profile and what
\* CascadeDelete removes with them, the user's products, the preorders the
\* user placed or received with their payments, and the follows
UserDestroy(user) ==
    LET gone_vendors == {v.id : v \in {w \in vendor_profiles : w.user = user}}
        gone_sheds == {s.id : s \in {t \in sheds : t.vendor \in gone_vendors}}
        gone_products == {p.id : p \in {q \in products : q.vendor = user}}
        tables == CascadeDelete(gone_sheds, gone_products)
        lost_preorders == {o \in tables.preorders :
                             o.customer = user \/ o.vendor = user}
    IN  IF user = Anonymous
        THEN [status |-> 401, users |-> users,
              vendor_profiles |-> vendor_profiles,
              customer_profiles |-> customer_profiles, follows |-> follows,
              tables |-> CascadeDelete({}, {})]
        ELSE [status |-> 204,
              users |-> {u \in users : u.id # user},
              vendor_profiles |-> {v \in vendor_profiles : v.user # user},
              customer_profiles |-> {c \in customer_profiles : c.user # user},
              follows |-> {f \in follows : f.customer # user
                                           /\ f.vendor \notin gone_vendors},
              tables |-> [tables EXCEPT
                  !.preorders = tables.preorders \ lost_preorders,
                  !.payments = {y \in tables.payments :
                                  \A o \in lost_preorders : y.preorder # o.id}]]

UserDelete ==
    \E user \in RequestUsers :
      LET done == UserDestroy(user)
      IN  /\ users' = done.users
          /\ vendor_profiles' = done.vendor_profiles
          /\ customer_profiles' = done.customer_profiles
          /\ follows' = done.follows
          /\ TablesBecome(done.tables)
          /\ last' = Answer("user_delete", user, 0, [none |-> TRUE],
                            done.status)
          /\ UNCHANGED registration

\* the payment endpoints
SpecPayments == InitMarket /\ [][NextPayments]_vars

\* the preorder endpoints
SpecOrders == InitMarket /\ [][NextOrders]_vars

\* the product and shed endpoints
SpecCatalog == InitMarket /\ [][NextCatalog]_vars

\* both registrations: of regular users and of vendors
SpecAccounts == Init /\ [][Next \/ UserRegistration]_vars

\* what customers do: the preorder and the follow endpoints
SpecCustomers == InitMarket /\ [][NextOrders \/ NextFollowers]_vars

\* what a vendor does about the shed, and the dashboard that reports it
NextDashboard ==
    \/ ProductCreate
    \/ ProductDelete
    \/ ShedDelete
    \/ FollowDelete
    \/ VendorDashboard

SpecDashboard == InitMarket /\ [][NextDashboard]_vars

\* a store with two vendors and three sheds of CB
ShedStores == {<<2, 3, 0>>}

InitSheds == InitIn(ShedStores, FullReqs, FullRefs)

\* what writes or removes sheds: vendor registration, the shed endpoint and
\* the deletion of accounts
NextSheds ==
    \/ Next
    \/ ShedCreate
    \/ ShedUpdate
    \/ UserDelete

SpecSheds == InitSheds /\ [][NextSheds]_vars

\* what touches a shed and its payments once it exists
NextSecured ==
    \/ InitiateShedPayment
    \/ PaystackWebhook
    \/ ShedUpdate
    \/ ShedCollage

SpecSecured == InitMarket /\ [][NextSecured]_vars

(***************************************************************************)
(* What the claims speak of                                                *)
(***************************************************************************)
Slots == DOMAIN pc

\* the callback read a staged entry (line 221 returned data)
Found(q) == req[q].vendor_data # NoEntry

InFlight(q) == pc[q] \in {"create_user", "provision", "except"}

Quiet == \A q \in Slots : ~InFlight(q)

\* the rows the callbacks for reference r have written and that still exist
UsersOf(r) ==
    {u \in users : \E q \in Slots : req[q].reference = r /\ u.id \in req[q].user}

VendorsOf(r) == {v \in vendor_profiles : v.payment_reference = r}

ShedsOf(r) == {s \in sheds : \E v \in VendorsOf(r) : s.vendor = v.id}

\* the spec's shed code: the domain and a zero-padded 3-digit sequence number
PaddedShedNumber(domain, k) ==
    domain \o (IF k < 10 THEN "00" ELSE IF k < 100 THEN "0" ELSE "") \o ToString(k)

\* the callbacks that completed a staged registration of the domain
Completions(domain) ==
    {q \in Slots : Found(q) /\ req[q].vendor_data.domain = domain}

\* no two of the callbacks that read an entry share a reference or a username
DistinctRegistrations ==
    \A p, q \in Slots :
      (p # q /\ Found(p) /\ Found(q)) =>
         /\ req[p].reference # req[q].reference
         /\ req[p].vendor_data.username # req[q].vendor_data.username

(***************************************************************************)
(* C1: from a store with no sheds, the completions of a domain D receive    *)
(* the shed numbers D001, D002, ... with no gaps and no repeats.           *)
(***************************************************************************)
C1_SequentialShedNumbers ==
    (Quiet /\ DistinctRegistrations) =>
      \A d \in Domains :
        /\ \A q \in Completions(d) : resp[q].status = 200
        /\ {resp[q].shed_number : q \in Completions(d)} =
             {PaddedShedNumber(d, k) : k \in 1..Cardinality(Completions(d))}

(***************************************************************************)
(* C2: with 100 shed numbers of a domain taken, an allocation fails with    *)
(* the capacity error and allocates nothing: the staging request is         *)
(* rejected as fully booked when the domain has 100 vendors, and the        *)
(* callback's allocation raises "No available shed numbers" when the sheds  *)
(* D1..D100 exist, writing no profile and no shed.                          *)
(***************************************************************************)
ShedNumbersExhausted(domain) ==
    \A n \in 1..MaxShedsPerDomain :
      ShedNumberExists(sheds, FormatShedNumber(domain, n))

StagingAccepted(outcome) ==
    outcome \in {"accepted", "initiation_failed", "initiation_error"}

C2_StagingStep ==
    (lastStage' # lastStage \/ nextRef' # nextRef) =>
       (VendorCount(vendor_profiles, lastStage'.domain) >= MaxShedsPerDomain =>
          /\ ~StagingAccepted(lastStage'.outcome)
          /\ UNCHANGED <<cache, nextRef, users, vendor_profiles, sheds>>)

C2_CallbackStep ==
    \A q \in Slots :
      (pc[q] = "provision" /\ pc'[q] # "provision"
         /\ ShedNumbersExhausted(req[q].vendor_data.domain)) =>
        /\ pc'[q] = "except"
        /\ req'[q].exc = ErrNoAvailable
        /\ UNCHANGED <<vendor_profiles, sheds>>

NoDuplicateShedNumbers ==
    \A s, t \in sheds : s.shed_number = t.shed_number => s.id = t.id

\* both handlers are in their except block at once, each after its own
\* allocation step: the two completions overlapped
FailedTogether(p, q) ==
    /\ p # q
    /\ pc[p] = "except" /\ req[p].user # {}
    /\ pc[q] = "except" /\ req[q].user # {}
    /\ req[p].vendor_data.domain = req[q].vendor_data.domain

C3_ConflictNotDuplicate ==
    /\ NoDuplicateShedNumbers
    /\ \A p, q \in Slots :
         (FailedTogether(p, q) /\ DistinctRegistrations) =>
            (req[p].exc = ErrIntegrity /\ req[q].exc = ErrIntegrity)

(***************************************************************************)
(* C4: until a callback for its reference has succeeded, a registration     *)
(* has no User, VendorProfile or Shed in the store.                         *)
(***************************************************************************)
Succeeded(r) ==
    \E q \in Slots : req[q].reference = r /\ pc[q] = "done" /\ resp[q].status = 200

C4_NothingStoredBeforeSuccess ==
    \A r \in IssuedRefs :
      ((\A q \in Slots : req[q].reference = r => ~InFlight(q)) /\ ~Succeeded(r)) =>
         /\ UsersOf(r) = {}
         /\ VendorsOf(r) = {}
         /\ ShedsOf(r) = {}

(***************************************************************************)
(* C5: a callback that fails leaves none of the rows it wrote in the store. *)
(***************************************************************************)
C5_AllOrNothing ==
    \A q \in Slots :
      (pc[q] = "done" /\ resp[q].status # 200) =>
         /\ \A u \in users : u.id \notin req[q].user
         /\ \A v \in vendor_profiles : v.user \notin req[q].user

(***************************************************************************)
(* C6: two success callbacks for one reference, one after the other: the    *)
(* first creates one User, one VendorProfile and one Shed, the second finds *)
(* no entry and changes nothing.                                            *)
(***************************************************************************)
C6_ExactlyOnceOnReplay ==
    \A p, q \in Slots :
      (/\ p < q /\ pc[p] = "done" /\ pc[q] = "done"
       /\ req[p].reference = req[q].reference
       /\ Found(p) /\ req[q].exc = "expired") =>
         /\ Cardinality(UsersOf(req[p].reference)) = 1
         /\ Cardinality(VendorsOf(req[p].reference)) = 1
         /\ Cardinality(ShedsOf(req[p].reference)) = 1

(***************************************************************************)
(* C7: whatever the interleaving of the success callbacks for a reference,  *)
(* at most one User, one VendorProfile and one Shed exist for it.           *)
(***************************************************************************)
C7_AtMostOnePerReference ==
    \A r \in IssuedRefs \cup {UnknownRef} :
      /\ Cardinality(UsersOf(r)) <= 1
      /\ Cardinality(VendorsOf(r)) <= 1
      /\ Cardinality(ShedsOf(r)) <= 1

\* two callbacks read the same entry before either deleted it, and both ended
C7_Witness ==
    \E p, q \in Slots :
      /\ p # q /\ Found(p) /\ Found(q)
      /\ req[p].reference = req[q].reference
      /\ pc[p] = "done" /\ pc[q] = "done"
      /\ req[p].user # {} /\ req[q].exc = ErrIntegrity
      /\ Cardinality(UsersOf(req[p].reference)) = 1

(***************************************************************************)
(* C8: a success callback whose reference has no cache entry is answered    *)
(* 400 "expired or not found" and writes nothing.                           *)
(***************************************************************************)
C8_Step ==
    \A q \in Slots :
      (/\ pc[q] = "idle" /\ pc'[q] # "idle"
       /\ req'[q].verification = "success"
       /\ req'[q].reference # NoRef
       /\ CacheGet(cache, req'[q].reference) = NoEntry) =>
         /\ pc'[q] = "done"
         /\ resp'[q].status = 400
         /\ req'[q].exc = "expired"
         /\ req'[q].user = {}
         /\ UNCHANGED <<users, vendor_profiles, sheds, cache>>

C8_ExpiredCreatesNothing == [][C8_Step]_vars

\* one callback consumed the entry and a later one for the same reference
\* was turned away; the store holds the first one's user only
C8_Witness ==
    \E p, q \in Slots :
      /\ p < q /\ Found(p) /\ pc[p] = "done"
      /\ req[q].reference = req[p].reference
      /\ pc[q] = "done" /\ req[q].exc = "expired" /\ resp[q].status = 400
      /\ Cardinality(users) = 1

(***************************************************************************)
(* C9: once the gateway has failed a registration's payment (initialize     *)
(* raised or returned a false status, or the verification was not a         *)
(* success), the entry of that reference is gone from the cache.            *)
(***************************************************************************)
C9_FailedPaymentDropsEntry ==
    \A r \in gatewayFailed : CacheGet(cache, r) = NoEntry

\* an accepted registration whose verification then failed
C9_Witness ==
    /\ lastStage.outcome = "accepted"
    /\ \E q \in Slots :
         /\ pc[q] = "done"
         /\ req[q].reference = RefOf(1)
         /\ req[q].exc = "verification_failed"
         /\ req[q].reference \in gatewayFailed

(***************************************************************************)
(* C10: on an empty store, staging a CB registration and delivering the    *)
(* success callback yields a VendorProfile of domain CB with shed number   *)
(* CB001 and a secured Shed CB001 of that vendor.                          *)
(***************************************************************************)
C10_EndToEnd ==
    \A q \in Slots :
      (/\ pc[q] = "done" /\ Found(q)
       /\ req[q].vendor_data.domain = "CB"
       /\ \A p \in Slots \ {q} : pc[p] = "idle") =>
         /\ resp[q].status = 200
         /\ resp[q].shed_number = PaddedShedNumber("CB", 1)
         /\ \E v \in VendorsOf(req[q].reference) :
              /\ v.domain = "CB"
              /\ \E s \in sheds :
                   /\ s.vendor = v.id
                   /\ s.shed_number = PaddedShedNumber("CB", 1)
                   /\ s.secured

(***************************************************************************)
(* What the payment claims speak of                                        *)
(***************************************************************************)
\* the step just taken was a webhook delivery of charge.success / success
SuccessDelivery(answer) ==
    /\ answer.op = "webhook"
    /\ answer.input.event = "charge.success"
    /\ answer.input.data # NoData
    /\ answer.input.data.status = "success"

DeliveredRef(answer) == answer.input.data.reference

\* row is in table, and table holds no other row of that id
HoldsRow(table, row) ==
    row \in table /\ \A other \in table : other.id = row.id => other = row

\* every row of before except those of the ids is in after as it was
OthersKept(before, after, ids) ==
    /\ {row.id : row \in after} = {row.id : row \in before}
    /\ \A row \in before : row.id \notin ids => HoldsRow(after, row)

(***************************************************************************)
(* C11: a charge.success / success delivery whose reference is that of a   *)
(* VendorPayment sets that VendorPayment to success and its shed's secured  *)
(* flag to true, and changes no other Payment, VendorPayment or Shed.       *)
(***************************************************************************)
C11_Step ==
    \A vp \in vendor_payments :
      (SuccessDelivery(last') /\ DeliveredRef(last') = vp.reference) =>
         /\ last'.status = 200
         /\ HoldsRow(vendor_payments', [vp EXCEPT !.status = "success"])
         /\ \A shed \in sheds :
              shed.id = vp.shed => HoldsRow(sheds', [shed EXCEPT !.secured = TRUE])
         /\ OthersKept(vendor_payments, vendor_payments', {vp.id})
         /\ OthersKept(sheds, sheds', {vp.shed})
         /\ payments' = payments

C11_WebhookSecuresShed == [][C11_Step]_vars

\* a delivery reconciled one vendor payment while another one stayed pending
C11_Witness ==
    /\ SuccessDelivery(last) /\ last.status = 200
    /\ \E vp, other \in vendor_payments :
         /\ vp.reference = DeliveredRef(last) /\ vp.status = "success"
         /\ \E shed \in sheds : shed.id = vp.shed /\ shed.secured
         /\ other.status = "pending"
         /\ \E shed \in sheds : shed.id = other.shed /\ ~shed.secured

(***************************************************************************)
(* C12: a charge.success / success delivery whose reference is that of no  *)
(* VendorPayment but of a preorder Payment is answered with success and    *)
(* sets that Payment to completed.                                         *)
(***************************************************************************)
C12_Step ==
    \A payment \in payments :
      (/\ SuccessDelivery(last')
       /\ DeliveredRef(last') = payment.reference
       /\ RowsByReference(vendor_payments, payment.reference) = {}) =>
         /\ last'.status = 200
         /\ HoldsRow(payments', [payment EXCEPT !.status = "completed"])

C12_WebhookCompletesPayment == [][C12_Step]_vars

(***************************************************************************)
(* C13: the reconciliation is idempotent: after a charge.success / success *)
(* delivery for the reference of a Payment or VendorPayment the record has *)
(* made its one transition, and delivering the same payload again is       *)
(* answered without error and leaves payments, vendor payments and sheds   *)
(* as they are.                                                            *)
(***************************************************************************)
C13_WebhookIdempotent ==
    (/\ SuccessDelivery(last)
     /\ \E row \in payments \cup vendor_payments :
          row.reference = DeliveredRef(last)) =>
       LET again == PaystackWebhookPost(last.input.event, last.input.data,
                                        vendor_payments, sheds)
       IN  /\ last.status = 200
           /\ \A row \in payments \cup vendor_payments :
                row.reference = DeliveredRef(last) => row.status # "pending"
           /\ again.status = 200
           /\ again.vendor_payments = vendor_payments
           /\ again.sheds = sheds

(***************************************************************************)
(* C14: a delivery whose event is not charge.success or whose status is    *)
(* not success (a payload without data included) is answered with a        *)
(* non-error outcome and changes no Payment, VendorPayment or Shed.        *)
(***************************************************************************)
C14_Step ==
    (last'.op = "webhook" /\ ~SuccessDelivery(last')) =>
       /\ last'.status < 400
       /\ UNCHANGED <<payments, vendor_payments, sheds>>

C14_OtherEventsIgnored == [][C14_Step]_vars

(***************************************************************************)
(* C15: a charge.success / success delivery whose reference is that of no  *)
(* VendorPayment and no Payment is answered 404 and changes no record.     *)
(***************************************************************************)
C15_Step ==
    (/\ SuccessDelivery(last')
     /\ RowsByReference(vendor_payments, DeliveredRef(last')) = {}
     /\ RowsByReference(payments, DeliveredRef(last')) = {}) =>
       /\ last'.status = 404
       /\ UNCHANGED <<store, customer_profiles, products, preorders, payments,
                      vendor_payments>>

C15_UnknownReferenceNotFound == [][C15_Step]_vars

\* a delivery for a reference nobody holds was answered 404 while a vendor
\* payment was waiting
C15_Witness ==
    /\ SuccessDelivery(last) /\ last.status = 404
    /\ DeliveredRef(last) = UnknownPaymentRef
    /\ \E vp \in vendor_payments : vp.status = "pending"

(***************************************************************************)
(* C16: Payment and VendorPayment records start as pending, and a record   *)
(* that is success, completed or failed keeps that status through every    *)
(* later webhook delivery and status check.                                *)
(***************************************************************************)
TerminalStatuses == {"success", "completed", "failed"}

StartsPending(before, after) ==
    \A row \in after :
      (\A old \in before : old.id # row.id) => row.status = "pending"

StaysTerminal(before, after) ==
    \A old \in before, row \in after :
      (old.id = row.id /\ old.status \in TerminalStatuses) =>
         row.status = old.status

C16_Step ==
    /\ StartsPending(payments, payments')
    /\ StartsPending(vendor_payments, vendor_payments')
    /\ StaysTerminal(payments, payments')
    /\ StaysTerminal(vendor_payments, vendor_payments')

RequestedProduct(product_id) == CHOOSE p \in products : p.id = product_id

\* the rows a step added to the preorders
NewPreorders == preorders' \ preorders

\* C17: a create request of a customer for an existing product is rejected
\* with a validation error (400) and stores nothing when its quantity is
\* <= 0 or above the product's stock; otherwise it succeeds (201) and the
\* one preorder it stores has status pending
C17_Step ==
    (/\ last'.op = "create"
     /\ HasCustomerProfile(last'.user)
     /\ RowsById(products, last'.target) # {}
     /\ RowsById(users, last'.input.vendor) # {})
    => IF \/ last'.input.quantity <= 0
          \/ last'.input.quantity > RequestedProduct(last'.target).quantity
       THEN last'.status = 400 /\ preorders' = preorders
       ELSE /\ last'.status = 201
            /\ Cardinality(NewPreorders) = 1
            /\ \A p \in NewPreorders : p.status = "pending"

C17_CreateValidatesQuantity == [][C17_Step]_vars

\* the vendor a preorder belongs to: the user its vendor field names, who
\* also owns the shed of its product
OwningVendor(preorder, user) ==
    preorder.vendor = user /\ ShedOwnerOf(preorder) = user

\* C18: confirm by the owning vendor takes a pending preorder to confirmed;
\* by a vendor who does not own the shed of its product it is answered 403
\* (PermissionDenied) and changes nothing; a vendor's confirm of an id that
\* no preorder has is answered 404 (NotFound)
C18_Step ==
    last'.op = "confirm" =>
      LET found == RowsById(preorders, last'.target)
          preorder == CHOOSE p \in found : TRUE
          after == CHOOSE p \in RowsById(preorders', last'.target) : TRUE
      IN  /\ (found = {} /\ HasVendorProfile(last'.user)) =>
               (last'.status = 404 /\ preorders' = preorders)
          /\ (/\ found # {}
              /\ OwningVendor(preorder, last'.user)
              /\ preorder.status = "pending") =>
               (last'.status = 200 /\ after.status = "confirmed")
          /\ (/\ found # {}
              /\ HasVendorProfile(last'.user)
              /\ ShedOwnerOf(preorder) # last'.user) =>
               (last'.status = 403 /\ preorders' = preorders)

C18_ConfirmByOwningVendor == [][C18_Step]_vars

\* who may take a preorder to a status: the vendor user owning the shed of
\* its product, and for cancelled also the customer who placed it
MayConfirm(preorder, user) == ShedOwnerOf(preorder) = user

MayCancel(preorder, user) ==
    ShedOwnerOf(preorder) = user \/ preorder.customer = user

\* the rows whose status a step changed to value
TurnedTo(value) ==
    {p \in preorders :
       \E q \in preorders' :
         q.id = p.id /\ q.status # p.status /\ q.status = value}

\* C19: whatever the request, a preorder turns confirmed only on a request
\* of the vendor user owning the shed of its product, and cancelled only on
\* a request of that vendor or of the customer who placed it; confirm and
\* cancel of every other authenticated user are refused (answered with an
\* error) and change no preorder, whatever the preorder's vendor field holds
C19_Step ==
    /\ \A p \in TurnedTo("confirmed") : MayConfirm(p, last'.user)
    /\ \A p \in TurnedTo("cancelled") : MayCancel(p, last'.user)
    /\ \A p \in RowsById(preorders, last'.target) :
         (/\ last'.user # Anonymous
          /\ \/ last'.op = "confirm" /\ ~MayConfirm(p, last'.user)
             \/ last'.op = "cancel" /\ ~MayCancel(p, last'.user))
         => (last'.status >= 400 /\ preorders' = preorders)

ProductWriteOps == {"product_create", "product_update", "product_destroy"}

ShedWriteOps == {"shed_create", "shed_update", "shed_destroy", "shed_collage"}

\* the rows a step created, changed or deleted
ChangedRows(before, after) == (before \ after) \cup (after \ before)

\* the user is the vendor owning the shed row, or a superuser
MayWriteShed(shed, user) ==
    \/ user \in Superusers
    \/ \E v \in vendor_profiles : v.id = shed.vendor /\ v.user = user

\* an anonymous GET of the list, or of a row that exists
AnonymousRead(answer) ==
    /\ answer.user = Anonymous
    /\ \/ answer.op \in {"product_list", "shed_list"}
       \/ answer.op = "product_retrieve" /\ RowsById(products, answer.target) # {}
       \/ answer.op = "shed_retrieve" /\ RowsById(sheds, answer.target) # {}

\* C20: a request to the product endpoints creates, changes or deletes a
\* product only when it comes from the vendor owning the product's shed, a
\* request to the shed endpoints creates, changes or deletes a shed (its
\* collage included) only when it comes from the shed's vendor or a
\* superuser, and an anonymous list or read of products and of sheds is
\* answered 200
C20_Step ==
    /\ last'.op \in ProductWriteOps =>
         \A p \in ChangedRows(products, products') :
           ShedVendorUser(p.shed) = last'.user
    /\ last'.op \in ShedWriteOps =>
         /\ \A s \in ChangedRows(sheds, sheds') : MayWriteShed(s, last'.user)
         /\ \A c \in ChangedRows(collages, collages') :
              \E s \in sheds : s.id = c.shed /\ MayWriteShed(s, last'.user)
    /\ AnonymousRead(last') => last'.status = 200

C20_OwnersWriteAllRead == [][C20_Step]_vars

(***************************************************************************)
(* Customers' records                                                      *)
(***************************************************************************)
\* the rows of a table whose id the table did not hold before the step
CreatedRows(before, after) ==
    {row \in after : \A old \in before : old.id # row.id}

\* the rows a step deleted from a table
DeletedRows(before, after) ==
    {row \in before : \A new \in after : new.id # row.id}

\* a customer: a user with a customer profile and no vendor profile
IsCustomerOnly(user) == HasCustomerProfile(user) /\ ~HasVendorProfile(user)

\* C21: a Preorder or Follow is created only on a request of a user with a
\* customer profile and belongs to that user whatever the body names; what
\* a customer deletes or cancels is their own; a vendor's request to create
\* a preorder or a follow is answered with an error and stores nothing
C21_Step ==
    /\ \A row \in CreatedRows(preorders, preorders')
                    \cup CreatedRows(follows, follows') :
         HasCustomerProfile(last'.user) /\ row.customer = last'.user
    /\ IsCustomerOnly(last'.user) =>
         \A row \in DeletedRows(preorders, preorders')
                      \cup DeletedRows(follows, follows')
                      \cup TurnedTo("cancelled") :
           row.customer = last'.user
    /\ (HasVendorProfile(last'.user)
        /\ last'.op \in {"create", "follow_create"}) =>
         (last'.status >= 400 /\ UNCHANGED <<preorders, follows>>)

FollowsOfPair(rows, customer, vendor) ==
    {f \in rows : f.customer = customer /\ f.vendor = vendor}

\* C22: no (customer, vendor) pair has two Follows; a customer's create for
\* a pair that has one is answered with a conflict (409, or the validation
\* error 400) and stores nothing, and a create for a pair that has none,
\* never followed or unfollowed since, succeeds (201) and stores the Follow
C22_Step ==
    /\ \A f \in follows' :
         Cardinality(FollowsOfPair(follows', f.customer, f.vendor)) = 1
    /\ (/\ last'.op = "follow_create"
        /\ IsCustomerOnly(last'.user)
        /\ FollowSerializerValid(last'.target)) =>
         IF FollowsOfPair(follows, last'.user, last'.target) # {}
         THEN last'.status \in {400, 409} /\ follows' = follows
         ELSE /\ last'.status = 201
              /\ Cardinality(FollowsOfPair(follows', last'.user,
                                           last'.target)) = 1

C22_OneFollowPerPair == [][C22_Step]_vars

(***************************************************************************)
(* Accounts                                                                *)
(***************************************************************************)
\* C23: whenever no callback is part-way through, every user has exactly
\* one kind of profile: a customer profile (after regular registration) or
\* a vendor profile (after vendor provisioning), never both and never none
C23_OneProfileKind ==
    Quiet => \A u \in users : HasVendorProfile(u.id) # HasCustomerProfile(u.id)

(***************************************************************************)
(* Payment records                                                         *)
(***************************************************************************)
\* the references of the payment records of both kinds, one per record
PaymentRecords ==
    {<<"Payment", y.id, y.reference>> : y \in payments}
      \cup {<<"VendorPayment", vp.id, vp.reference>> : vp \in vendor_payments}

\* C24: every preorder has at most one Payment, every shed at most one
\* VendorPayment, and no two payment records carry the same reference
C24_OnePaymentEach ==
    /\ \A o \in preorders :
         Cardinality({y \in payments : y.preorder = o.id}) <= 1
    /\ \A s \in sheds :
         Cardinality({vp \in vendor_payments : vp.shed = s.id}) <= 1
    /\ \A a, b \in PaymentRecords : a[3] = b[3] => a = b

\* C25: a call of InitiateShedPayment stores a VendorPayment exactly when
\* the gateway's initialize reports success: the one new row is for the
\* requested shed, pending, and carries the reference the gateway returned
\* (which the gateway never repeats); when the gateway reports failure or
\* raises, the caller is not the shed's owner, or the shed is already
\* secured, nothing is stored. No call changes or removes an existing row.
ShedOwnedUnsecured(user, shed_id) ==
    \E s \in sheds :
        /\ s.id = shed_id
        /\ ~s.secured
        /\ HasVendorProfile(user)
        /\ s.vendor = VendorProfileOf(user).id

C25_Step ==
    last'.op = "initiate_shed" =>
        LET created == CreatedRows(vendor_payments, vendor_payments')
            reached == /\ last'.user # Anonymous
                       /\ ShedOwnedUnsecured(last'.user, last'.target)
                       /\ AmountCheck(last'.input.amount) = "valid"
            success == /\ last'.input.gateway = "ok"
                       /\ RowsByReference(vendor_payments,
                                          last'.input.reference) = {}
        IN  /\ vendor_payments \subseteq vendor_payments'
            /\ (reached /\ success) <=> created # {}
            /\ created # {} <=> last'.status = 200
            /\ created # {} =>
                  \E row \in created :
                      /\ created = {row}
                      /\ row.shed = last'.target
                      /\ row.status = "pending"
                      /\ row.reference = last'.input.reference

StoredRecords ==
    <<users, vendor_profiles, sheds, customer_profiles, products, preorders,
      payments, vendor_payments, collages, follows>>

ShedsOfUser(user) ==
    {s \in sheds : HasVendorProfile(user) /\ s.vendor = VendorProfileOf(user).id}

C26_Step ==
    (last'.op = "dashboard" /\ last'.user # Anonymous) =>
        LET user == last'.user
            in_shed == {p.id : p \in {q \in products :
                                        q.shed \in {s.id : s \in ShedsOfUser(user)}}}
        IN  /\ UNCHANGED StoredRecords
            /\ ~HasVendorProfile(user) => last'.status = 403
            /\ (HasVendorProfile(user) /\ ShedsOfUser(user) = {}) =>
                  last'.status = 404
            /\ ShedsOfUser(user) # {} =>
                  /\ last'.status = 200
                  /\ last'.input.products_count = Cardinality(in_shed)
                  /\ last'.input.preorders_count =
                       Cardinality({o \in preorders : o.product \in in_shed})
                  /\ last'.input.followers_count =
                       Cardinality({f \in follows :
                                      f.vendor = VendorProfileOf(user).id})

C26_DashboardPureRead == [][C26_Step]_vars

C28_PaidMeansProvisioned ==
    \A q \in Slots :
      (pc[q] = "done" /\ req[q].verification = "success" /\ Found(q)) =>
         /\ resp[q].status = 200
         /\ UsersOf(req[q].reference) # {}
         /\ VendorsOf(req[q].reference) # {}
         /\ ShedsOf(req[q].reference) # {}

C30_Step ==
    \A before \in preorders, after \in preorders' :
        (before.id = after.id /\ before.status # after.status) =>
            /\ before.status = "pending"
            /\ \/ last'.op = "confirm" /\ after.status = "confirmed"
               \/ last'.op = "cancel" /\ after.status = "cancelled"

C30_TerminalStatuses == [][C30_Step]_vars

====
